---- MODULE Spec2Model ----
(***************************************************************************)
(* A model of BB Texture Combine (src/__init__.py): UDIM tile addressing,  *)
(* the per-tile source survey, the UV repacking planner, the PIL           *)
(* compositor's placement arithmetic and the channel merge of              *)
(* analyze_materials.                                                      *)
(*                                                                         *)
(* Texture coordinates are exact rationals <<n, d>> (n/d, d > 0).  The     *)
(* compositor's pixel arithmetic is IEEE-754 binary64, as CPython floats   *)
(* are; it is modelled bit for bit (section "binary64").                   *)
(***************************************************************************)
EXTENDS Integers, Sequences, FiniteSets, TLC

VARIABLES
    pc,                \* position of the modelled run
    objs,              \* context.selected_objects, in input order
    uv_layer,          \* each object's current texture coordinates, per loop
    target_udim_count, \* props.target_udim_count
    idx,               \* index of the object a survey loop is at
    source_tiles,      \* detect_source_udims_for_socket: set of tiles
    tile_to_objects,   \* detect_source_udims_for_socket: tile -> objects
    tile_to_texture,   \* detect_source_udims_for_socket: tile -> image
    det,               \* detect_source_udims (inside repacking): its three results
    plan,              \* what repack_uvs_udim_based used per source tile
    placed_objects,    \* repack_uvs_udim_based: placed objects
    comp,              \* what composite_textures_with_pil computes per source tile
    arg,               \* input of a function applied on its own
    ret                \* its result

vars == <<pc, objs, uv_layer, target_udim_count, idx, source_tiles, tile_to_objects,
          tile_to_texture, det, plan, placed_objects, comp, arg, ret>>

pipeVars == <<pc, objs, uv_layer, target_udim_count, idx, source_tiles, tile_to_objects,
              tile_to_texture, det, plan, placed_objects, comp>>

(***************************************************************************)
(* Exact rationals.                                                        *)
(***************************************************************************)
RECURSIVE Gcd(_, _)
Gcd(a, b) == IF b = 0 THEN a ELSE Gcd(b, a % b)

Abs(x) == IF x < 0 THEN -x ELSE x

Rat(n, d) ==
    LET g == Gcd(Abs(n), d) IN <<n \div g, d \div g>>

RInt(k) == <<k, 1>>
RAdd(a, b) == Rat(a[1] * b[2] + b[1] * a[2], a[2] * b[2])
RSub(a, b) == Rat(a[1] * b[2] - b[1] * a[2], a[2] * b[2])
RMul(a, b) == Rat(a[1] * b[1], a[2] * b[2])
RDivInt(a, k) == Rat(a[1], a[2] * k)
RLe(a, b) == a[1] * b[2] <= b[1] * a[2]
RLt(a, b) == a[1] * b[2] < b[1] * a[2]
RMin(a, b) == IF RLe(a, b) THEN a ELSE b
RMax(a, b) == IF RLe(a, b) THEN b ELSE a
RIsInt(a) == a[1] % a[2] = 0

\* math.floor
Floor(a) == a[1] \div a[2]

\* int(): truncation toward zero
Trunc(a) == IF a[1] >= 0 THEN a[1] \div a[2] ELSE -((-a[1]) \div a[2])

(***************************************************************************)
(* Tile addressing.                                                        *)
(***************************************************************************)
\* props.target_udim_count: min and max
TargetMin == 1
TargetMax == 100

UdimBase == 1001
UdimWidth == 10

\* the literal 0.001 of the boundary adjustment
BoundaryEps == <<1, 1000>>

\* x if x != int(x) or x == 0 else x - 0.001
BoundaryAdjust(x) ==
    IF ~RIsInt(x) \/ x[1] = 0 THEN x ELSE RSub(x, BoundaryEps)

\* get_udim_tile_from_uv by the floor alone, without the boundary adjustment
\* (a mutant)
get_udim_tile_from_uv_NoAdjust(u, v) == UdimBase + Floor(v) * UdimWidth + Floor(u)

\* get_udim_tile_from_uv without the exemption of zero (a mutant)
get_udim_tile_from_uv_NoZeroExempt(u, v) ==
    LET adj(x) == IF ~RIsInt(x) THEN x ELSE RSub(x, BoundaryEps)
    IN  UdimBase + (Floor(adj(v)) * UdimWidth) + Floor(adj(u))

get_udim_tile_from_uv(u, v) ==
    LET u_adjusted == BoundaryAdjust(u)
        v_adjusted == BoundaryAdjust(v)
        tile_u == Floor(u_adjusted)
        tile_v == Floor(v_adjusted)
    IN  UdimBase + (tile_v * UdimWidth) + tile_u

\* the inline copy used by the repacker, the resolution policy and the
\* compositor: int() where get_udim_tile_from_uv has math.floor
InlineTileOf(uv) ==
    LET uv_tile_u == Trunc(BoundaryAdjust(uv[1]))
        uv_tile_v == Trunc(BoundaryAdjust(uv[2]))
    IN  UdimBase + (uv_tile_v * UdimWidth) + uv_tile_u

RECURSIVE SeqFold(_, _, _, _)
\* f over s[i], s[i+1], ... starting from acc
SeqFold(f(_, _), s, i, acc) ==
    IF i > Len(s) THEN acc ELSE SeqFold(f, s, i + 1, f(acc, s[i]))

\* the UV bounding box of a non-empty loop list: <<min_u, max_u, min_v, max_v>>
UvBounds(uvs) ==
    LET step(b, uv) == <<RMin(b[1], uv[1]), RMax(b[2], uv[1]),
                         RMin(b[3], uv[2]), RMax(b[4], uv[2])>>
        first_uv == uvs[1]
    IN  SeqFold(step, uvs, 1, <<first_uv[1], first_uv[1], first_uv[2], first_uv[2]>>)

\* the bounding-box centre: <<center_u, center_v>>
UvCenter(uvs) ==
    LET b == UvBounds(uvs)
    IN  <<RDivInt(RAdd(b[1], b[2]), 2), RDivInt(RAdd(b[3], b[4]), 2)>>

\* get_object_primary_udim by get_udim_tile_from_uv of the centre, boundary
\* adjustment included (a mutant)
get_object_primary_udim_ViaTileOf(obj) ==
    IF obj.type # "MESH" \/ ~obj.has_uv_layer THEN 0
    ELSE IF obj.uvs = <<>> THEN 0
    ELSE get_udim_tile_from_uv(UvCenter(obj.uvs)[1], UvCenter(obj.uvs)[2])

\* 0 stands for None: the callers only test the result for falsity
get_object_primary_udim(obj) ==
    IF obj.type # "MESH" \/ ~obj.has_uv_layer THEN 0
    ELSE IF obj.uvs = <<>> THEN 0
    ELSE LET c == UvCenter(obj.uvs)
             tile_u == Floor(c[1])
             tile_v == Floor(c[2])
         IN  UdimBase + (tile_v * UdimWidth) + tile_u

(***************************************************************************)
(* binary64.  A finite double is [sgn, man, exp]: sgn * man * 2^exp, with  *)
(* man a natural number of at most 53 significant bits, written as its     *)
(* bits, least significant first, and kept odd (zero is the empty          *)
(* sequence).  Every operation rounds to nearest, ties to even, as the     *)
(* hardware does.  The exponent range is never approached here.            *)
(***************************************************************************)
MantissaBits == 53

RECURSIVE BTrim(_)
\* without leading (most significant) zero bits
BTrim(a) ==
    IF a = <<>> THEN a
    ELSE IF a[Len(a)] = 0 THEN BTrim(SubSeq(a, 1, Len(a) - 1)) ELSE a

RECURSIVE BFromInt(_)
BFromInt(n) == IF n = 0 THEN <<>> ELSE <<n % 2>> \o BFromInt(n \div 2)

RECURSIVE BToInt(_)
BToInt(a) == IF a = <<>> THEN 0 ELSE a[1] + 2 * BToInt(Tail(a))

BitAt(a, i) == IF i <= Len(a) THEN a[i] ELSE 0

RECURSIVE BAddFrom(_, _, _, _)
BAddFrom(a, b, i, c) ==
    IF i > Len(a) /\ i > Len(b) THEN (IF c = 0 THEN <<>> ELSE <<1>>)
    ELSE LET t == BitAt(a, i) + BitAt(b, i) + c
         IN  <<t % 2>> \o BAddFrom(a, b, i + 1, t \div 2)

BAdd(a, b) == BAddFrom(a, b, 1, 0)

RECURSIVE BSubFrom(_, _, _, _)
BSubFrom(a, b, i, borrow) ==
    IF i > Len(a) THEN <<>>
    ELSE LET t == BitAt(a, i) - BitAt(b, i) - borrow
         IN  IF t < 0 THEN <<t + 2>> \o BSubFrom(a, b, i + 1, 1)
             ELSE <<t>> \o BSubFrom(a, b, i + 1, 0)

\* a - b for a >= b
BSub(a, b) == BTrim(BSubFrom(a, b, 1, 0))

RECURSIVE BLessFrom(_, _, _)
BLessFrom(a, b, i) ==
    IF i = 0 THEN FALSE
    ELSE IF a[i] # b[i] THEN a[i] < b[i] ELSE BLessFrom(a, b, i - 1)

\* a < b, both without leading zeros
BLess(a, b) ==
    IF Len(a) # Len(b) THEN Len(a) < Len(b) ELSE BLessFrom(a, b, Len(a))

RECURSIVE BMulSmallFrom(_, _, _, _)
BMulSmallFrom(a, k, i, c) ==
    IF i > Len(a) THEN BFromInt(c)
    ELSE LET t == a[i] * k + c
         IN  <<t % 2>> \o BMulSmallFrom(a, k, i + 1, t \div 2)

\* a * k for a machine integer k >= 0
BMulSmall(a, k) == BTrim(BMulSmallFrom(a, k, 1, 0))

BShl(a, k) == IF a = <<>> THEN a ELSE [i \in 1..k |-> 0] \o a
BShr(a, k) == IF k >= Len(a) THEN <<>> ELSE SubSeq(a, k + 1, Len(a))

\* the number of low zero bits of a non-zero a
LowZeros(a) == (CHOOSE i \in 1..Len(a) : a[i] = 1 /\ \A j \in 1..(i - 1) : a[j] = 0) - 1

FCanon(sgn, man, exp) ==
    IF man = <<>> THEN [sgn |-> 1, man |-> <<>>, exp |-> 0]
    ELSE LET z == LowZeros(man)
         IN  [sgn |-> sgn, man |-> BShr(man, z), exp |-> exp + z]

\* round sgn * man * 2^exp to 53 significant bits, nearest, ties to even
FRound(sgn, man, exp) ==
    LET n == Len(man) IN
    IF n <= MantissaBits THEN FCanon(sgn, man, exp)
    ELSE LET d == n - MantissaBits
             kept == SubSeq(man, d + 1, n)
             half == man[d] = 1
             sticky == \E i \in 1..(d - 1) : man[i] = 1
             up == half /\ (sticky \/ kept[1] = 1)
         IN  FCanon(sgn, IF up THEN BAdd(kept, <<1>>) ELSE kept, exp + d)

\* float(k) for an integer k >= 0
FFromInt(k) == FRound(1, BFromInt(k), 0)

RECURSIVE QuotientBits(_, _, _)
\* the quotient bits of (r * 2^n) / g, most significant first, followed by
\* one more bit that is 1 iff the division leaves a remainder
QuotientBits(r, n, g) ==
    IF n = 0 THEN <<IF r # 0 THEN 1 ELSE 0>>
    ELSE <<(2 * r) \div g>> \o QuotientBits((2 * r) % g, n - 1, g)

Reverse(s) == [i \in 1..Len(s) |-> s[Len(s) + 1 - i]]

\* 1.0 / g for an integer g >= 1
FOneOver(g) ==
    LET k == MantissaBits + 3 + Len(BFromInt(g))
    IN  FRound(1, BTrim(Reverse(<<1 \div g>> \o QuotientBits(1 % g, k, g))), -(k + 1))

\* k * a for an integer k >= 0 (the integer converts exactly)
FMulInt(k, a) == FRound(a.sgn, BMulSmall(a.man, k), a.exp)

\* a - b
FSub(a, b) ==
    LET e == IF a.exp < b.exp THEN a.exp ELSE b.exp
        x == BShl(a.man, a.exp - e)
        y == BShl(b.man, b.exp - e)
    IN  IF a.sgn # b.sgn THEN FRound(a.sgn, BAdd(x, y), e)
        ELSE IF BLess(x, y) THEN FRound(-a.sgn, BSub(y, x), e)
        ELSE FRound(a.sgn, BSub(x, y), e)

\* int(a): truncation toward zero
FTrunc(a) ==
    IF a.exp >= 0 THEN a.sgn * BToInt(BShl(a.man, a.exp))
    ELSE a.sgn * BToInt(BShr(a.man, -a.exp))

(***************************************************************************)
(* The grid layout and the placement of one source tile, as                *)
(* repack_uvs_udim_based and composite_textures_with_pil both compute it.  *)
(***************************************************************************)
\* math.ceil(a / b) for integers a >= 0, b >= 1
CeilDiv(a, b) == IF a % b = 0 THEN a \div b ELSE (a \div b) + 1

\* math.ceil(math.sqrt(n)) for an integer n >= 0
CeilSqrt(n) ==
    LET root == CHOOSE r \in 0..n : r * r <= n /\ (r + 1) * (r + 1) > n
    IN  IF root * root = n THEN root ELSE root + 1

\* tiles_per_target by truncating division (a mutant)
GridLayout_FloorTiles(source_count, count) ==
    LET tiles_per_target ==
            IF source_count \div count = 0 THEN 1 ELSE source_count \div count
        grid_cols == CeilSqrt(tiles_per_target)
    IN  [tiles_per_target |-> tiles_per_target,
         grid_cols |-> grid_cols,
         grid_rows |-> CeilDiv(tiles_per_target, grid_cols),
         target_tiles_per_row |-> CeilSqrt(count)]

\* grid_rows by truncating division (a mutant)
GridLayout_FloorRows(source_count, count) ==
    LET tiles_per_target == CeilDiv(source_count, count)
        grid_cols == CeilSqrt(tiles_per_target)
    IN  [tiles_per_target |-> tiles_per_target,
         grid_cols |-> grid_cols,
         grid_rows |-> tiles_per_target \div grid_cols,
         target_tiles_per_row |-> CeilSqrt(count)]

GridLayout(source_count, count) ==
    LET tiles_per_target == CeilDiv(source_count, count)
        grid_cols == CeilSqrt(tiles_per_target)
    IN  [tiles_per_target |-> tiles_per_target,
         grid_cols |-> grid_cols,
         grid_rows |-> CeilDiv(tiles_per_target, grid_cols),
         target_tiles_per_row |-> CeilSqrt(count)]

\* Placement filling the cells column by column (a mutant)
Placement_ColumnMajor(source_count, count, source_idx) ==
    LET g == GridLayout(source_count, count)
        target_tile_idx == source_idx \div g.tiles_per_target
        cell_idx == source_idx % g.tiles_per_target
        target_u == target_tile_idx % g.target_tiles_per_row
        target_v == target_tile_idx \div g.target_tiles_per_row
    IN  [target_tile_idx |-> target_tile_idx, cell_idx |-> cell_idx,
         target_u |-> target_u, target_v |-> target_v,
         target_tile_num |-> UdimBase + (target_v * UdimWidth) + target_u,
         cell_col |-> cell_idx \div g.grid_cols,
         cell_row |-> cell_idx % g.grid_cols]

\* Placement taking the cell column modulo grid_rows (a mutant)
Placement_ColumnByRows(source_count, count, source_idx) ==
    LET g == GridLayout(source_count, count)
        target_tile_idx == source_idx \div g.tiles_per_target
        cell_idx == source_idx % g.tiles_per_target
        target_u == target_tile_idx % g.target_tiles_per_row
        target_v == target_tile_idx \div g.target_tiles_per_row
    IN  [target_tile_idx |-> target_tile_idx, cell_idx |-> cell_idx,
         target_u |-> target_u, target_v |-> target_v,
         target_tile_num |-> UdimBase + (target_v * UdimWidth) + target_u,
         cell_col |-> cell_idx % g.grid_rows,
         cell_row |-> cell_idx \div g.grid_cols]

\* source_idx is the 0-based rank of the source tile in the sorted list
Placement(source_count, count, source_idx) ==
    LET g == GridLayout(source_count, count)
        target_tile_idx == source_idx \div g.tiles_per_target
        cell_idx == source_idx % g.tiles_per_target
        target_u == target_tile_idx % g.target_tiles_per_row
        target_v == target_tile_idx \div g.target_tiles_per_row
    IN  [target_tile_idx |-> target_tile_idx, cell_idx |-> cell_idx,
         target_u |-> target_u, target_v |-> target_v,
         target_tile_num |-> UdimBase + (target_v * UdimWidth) + target_u,
         cell_col |-> cell_idx % g.grid_cols,
         cell_row |-> cell_idx \div g.grid_cols]

\* the compositor's pixel rectangle of a cell: <<px, py, cell_size_px>>
PasteBox(grid_cols, cell_col, cell_row, resolution) ==
    LET cell_size == FOneOver(grid_cols)
        cell_x == FMulInt(cell_col, cell_size)
        cell_y_uv == FMulInt(cell_row, cell_size)
        cell_y_pil == FSub(FSub(FFromInt(1), cell_y_uv), cell_size)
    IN  [px |-> FTrunc(FMulInt(resolution, cell_x)),
         py |-> FTrunc(FMulInt(resolution, cell_y_pil)),
         cell_size_px |-> FTrunc(FMulInt(resolution, cell_size))]

(***************************************************************************)
(* The source survey: the loop body shared by detect_source_udims and      *)
(* detect_source_udims_for_socket.  A survey result is                     *)
(* [tiles, objects, texture]: the set source_tiles and the dictionaries    *)
(* tile_to_objects and tile_to_texture.  Objects are named by their index  *)
(* in objs; image 0 stands for None.                                       *)
(***************************************************************************)
EmptySurvey == [tiles |-> {}, objects |-> <<>>, texture |-> <<>>]

\* the dictionary d with d[k] = v
DictPut(d, k, v) == [x \in (DOMAIN d) \cup {k} |-> IF x = k THEN v ELSE d[x]]

\* the loop body where a later object's image replaces the tile's (a mutant)
SurveyObject_LastWins(sv, o, obj, obj_texture) ==
    IF obj.type # "MESH" \/ ~obj.has_uv_layer THEN sv
    ELSE LET primary_tile == get_object_primary_udim(obj) IN
         IF primary_tile = 0 THEN sv
         ELSE [tiles |-> sv.tiles \cup {primary_tile},
               objects |-> DictPut(sv.objects, primary_tile,
                              IF primary_tile \in DOMAIN sv.objects
                              THEN Append(sv.objects[primary_tile], o) ELSE <<o>>),
               texture |-> IF obj_texture # 0
                           THEN DictPut(sv.texture, primary_tile, obj_texture)
                           ELSE sv.texture]

\* the loop body that files every object under every known tile too (a mutant)
SurveyObject_AllTiles(sv, o, obj, obj_texture) ==
    IF obj.type # "MESH" \/ ~obj.has_uv_layer THEN sv
    ELSE LET primary_tile == get_object_primary_udim(obj) IN
         IF primary_tile = 0 THEN sv
         ELSE [tiles |-> sv.tiles \cup {primary_tile},
               objects |-> [t \in (DOMAIN sv.objects) \cup {primary_tile} |->
                              IF t \in DOMAIN sv.objects
                              THEN Append(sv.objects[t], o) ELSE <<o>>],
               texture |-> IF primary_tile \notin DOMAIN sv.texture /\ obj_texture # 0
                           THEN DictPut(sv.texture, primary_tile, obj_texture)
                           ELSE sv.texture]

\* one iteration of "for obj in objects": object o, whose image for the
\* surveyed channel resolved to obj_texture
SurveyObject(sv, o, obj, obj_texture) ==
    IF obj.type # "MESH" \/ ~obj.has_uv_layer THEN sv
    ELSE LET primary_tile == get_object_primary_udim(obj) IN
         IF primary_tile = 0 THEN sv
         ELSE [tiles |-> sv.tiles \cup {primary_tile},
               objects |-> DictPut(sv.objects, primary_tile,
                              IF primary_tile \in DOMAIN sv.objects
                              THEN Append(sv.objects[primary_tile], o) ELSE <<o>>),
               texture |-> IF primary_tile \notin DOMAIN sv.texture /\ obj_texture # 0
                           THEN DictPut(sv.texture, primary_tile, obj_texture)
                           ELSE sv.texture]

RECURSIVE Sorted(_)
\* sorted(list(S)) for a finite set S of integers
Sorted(S) ==
    IF S = {} THEN <<>>
    ELSE LET m == CHOOSE x \in S : \A y \in S : x <= y
         IN  <<m>> \o Sorted(S \ {m})

(***************************************************************************)
(* The operator's run (BB_OT_CombineTextures.execute) for one channel of   *)
(* the channel map: the channel's survey, the repacking (which surveys     *)
(* again with detect_source_udims), then the channel's compositing.        *)
(* objs[o].sock_tex is the image the channel resolves to for object o and  *)
(* objs[o].first_tex the image of the first image node of its material.    *)
(***************************************************************************)
\* obj as the code reads it: its coordinates are the current ones
ObjNow(o) == [objs[o] EXCEPT !.uvs = uv_layer[o]]

\* [obj for obj in context.selected_objects if obj.type == 'MESH']
selected_objects == Sorted({o \in DOMAIN objs : objs[o].type = "MESH"})

\* the placement and transform data of the source tile of rank k (1-based)
PlanEntry(tiles, count, k) ==
    LET source_tile == tiles[k]
        g == GridLayout(Len(tiles), count)
        pl == Placement(Len(tiles), count, k - 1)
    IN  [source_tile |-> source_tile,
         target_tile_num |-> pl.target_tile_num,
         target_u |-> pl.target_u, target_v |-> pl.target_v,
         cell_col |-> pl.cell_col, cell_row |-> pl.cell_row,
         grid_cols |-> g.grid_cols,
         source_u |-> (source_tile - UdimBase) % UdimWidth,
         source_v |-> (source_tile - UdimBase) \div UdimWidth]

\* global + uv * scale on one axis: the coordinate is not brought to the
\* source tile's local space (a mutant)
TransformAxis_NoSourceOffset(x, source_x, target_x, cell, grid_cols) ==
    RAdd(RAdd(RInt(target_x), Rat(cell, grid_cols)), RMul(x, Rat(1, grid_cols)))

\* global + local * scale on one axis
TransformAxis(x, source_x, target_x, cell, grid_cols) ==
    RAdd(RAdd(RInt(target_x), Rat(cell, grid_cols)),
         RMul(RSub(x, RInt(source_x)), Rat(1, grid_cols)))

\* the transform of source tile e applied to coordinate p
TileTransform(p, e) ==
    <<TransformAxis(p[1], e.source_u, e.target_u, e.cell_col, e.grid_cols),
      TransformAxis(p[2], e.source_v, e.target_v, e.cell_row, e.grid_cols)>>

\* the rewrite applied whatever the coordinate's own tile (a mutant)
TransformUv_Always(p, e) == TileTransform(p, e)

\* one loop's coordinate while source tile e is processed
TransformUv(p, e) ==
    IF InlineTileOf(p) = e.source_tile THEN TileTransform(p, e) ELSE p

\* "for obj in tile_objects[source_tile]" for the tile of rank k: the state is
\* [uv, placed]
RepackTile(st, sv, tiles, count, k) ==
    LET e == PlanEntry(tiles, count, k)
        one(acc, o) ==
            [uv |-> [acc.uv EXCEPT ![o] =
                        [j \in DOMAIN acc.uv[o] |-> TransformUv(acc.uv[o][j], e)]],
             placed |-> IF \E i \in DOMAIN acc.placed : acc.placed[i] = o
                        THEN acc.placed ELSE Append(acc.placed, o)]
    IN  IF e.source_tile \in DOMAIN sv.objects
        THEN SeqFold(one, sv.objects[e.source_tile], 1, st)
        ELSE st

RECURSIVE RepackFrom(_, _, _, _, _)
\* "for source_idx, source_tile in enumerate(source_tiles)" from rank k on
RepackFrom(st, sv, tiles, count, k) ==
    IF k > Len(tiles) THEN st
    ELSE RepackFrom(RepackTile(st, sv, tiles, count, k), sv, tiles, count, k + 1)

\* the tiles the compositor finds in the objects' current coordinates
DetectTargetTiles(objects) ==
    Sorted(UNION {{InlineTileOf(uv_layer[objects[i]][j]) : j \in DOMAIN uv_layer[objects[i]]} :
                    i \in {x \in DOMAIN objects :
                             objs[objects[x]].type = "MESH" /\ objs[objects[x]].has_uv_layer}})

\* per source tile: whether its image loaded and where the compositor puts it
CompositeCells(tiles, texture, target_tiles) ==
    [k \in DOMAIN tiles |->
        IF tiles[k] \in DOMAIN texture
        THEN LET pl == Placement(Len(tiles), Len(target_tiles), k - 1)
             IN  [loaded |-> TRUE, target_tile_num |-> pl.target_tile_num,
                  cell_col |-> pl.cell_col, cell_row |-> pl.cell_row,
                  pasted |-> \E i \in DOMAIN target_tiles :
                                 target_tiles[i] = pl.target_tile_num]
        ELSE [loaded |-> FALSE]]

\* execute: no mesh object selected
ExecuteNoMesh ==
    /\ pc = "start"
    /\ selected_objects = <<>>
    /\ pc' = "cancelled"
    /\ UNCHANGED <<objs, uv_layer, target_udim_count, idx, source_tiles,
                   tile_to_objects, tile_to_texture, det, plan, placed_objects,
                   comp, arg, ret>>

\* execute: analyze_materials found no image, the channel map is empty
ExecuteNoTextures ==
    /\ pc = "start"
    /\ selected_objects # <<>>
    /\ \A o \in DOMAIN objs : objs[o].type = "MESH" => objs[o].first_tex = 0
    /\ pc' = "cancelled"
    /\ UNCHANGED <<objs, uv_layer, target_udim_count, idx, source_tiles,
                   tile_to_objects, tile_to_texture, det, plan, placed_objects,
                   comp, arg, ret>>

\* execute: the channel map is not empty, the channel's survey starts
ExecuteBegin ==
    /\ pc = "start"
    /\ \E o \in DOMAIN objs : objs[o].type = "MESH" /\ objs[o].first_tex # 0
    /\ pc' = "survey"
    /\ idx' = 1
    /\ UNCHANGED <<objs, uv_layer, target_udim_count, source_tiles,
                   tile_to_objects, tile_to_texture, det, plan, placed_objects,
                   comp, arg, ret>>

\* detect_source_udims_for_socket: one iteration of its loop over the objects
SurveySocketStep ==
    /\ pc = "survey"
    /\ idx <= Len(selected_objects)
    /\ LET o == selected_objects[idx]
           sv == SurveyObject([tiles |-> source_tiles, objects |-> tile_to_objects,
                               texture |-> tile_to_texture],
                              o, ObjNow(o), objs[o].sock_tex)
       IN  /\ source_tiles' = sv.tiles
           /\ tile_to_objects' = sv.objects
           /\ tile_to_texture' = sv.texture
    /\ idx' = idx + 1
    /\ UNCHANGED <<pc, objs, uv_layer, target_udim_count, det, plan,
                   placed_objects, comp, arg, ret>>

\* detect_source_udims_for_socket returns; repack_uvs_udim_based is called
SurveySocketReturn ==
    /\ pc = "survey"
    /\ idx > Len(selected_objects)
    /\ pc' = "detect"
    /\ idx' = 1
    /\ UNCHANGED <<objs, uv_layer, target_udim_count, source_tiles,
                   tile_to_objects, tile_to_texture, det, plan, placed_objects,
                   comp, arg, ret>>

\* detect_source_udims: one iteration of its loop over the objects
DetectStep ==
    /\ pc = "detect"
    /\ idx <= Len(selected_objects)
    /\ LET o == selected_objects[idx]
       IN  det' = SurveyObject(det, o, ObjNow(o), objs[o].first_tex)
    /\ idx' = idx + 1
    /\ UNCHANGED <<pc, objs, uv_layer, target_udim_count, source_tiles,
                   tile_to_objects, tile_to_texture, plan, placed_objects,
                   comp, arg, ret>>

\* repack_uvs_udim_based: no source tile; execute reports and cancels
RepackEmpty ==
    /\ pc = "detect"
    /\ idx > Len(selected_objects)
    /\ det.tiles = {}
    /\ pc' = "cancelled"
    /\ UNCHANGED <<objs, uv_layer, target_udim_count, idx, source_tiles,
                   tile_to_objects, tile_to_texture, det, plan, placed_objects,
                   comp, arg, ret>>

\* the repacking that rewrites the coordinates and reports no placed object,
\* on which execute cancels (a mutant)
RepackTransform_NothingPlaced ==
    /\ pc = "detect"
    /\ idx > Len(selected_objects)
    /\ det.tiles # {}
    /\ LET tiles == Sorted(det.tiles)
           st == RepackFrom([uv |-> uv_layer, placed |-> <<>>], det, tiles,
                            target_udim_count, 1)
       IN  /\ plan' = [k \in DOMAIN tiles |-> PlanEntry(tiles, target_udim_count, k)]
           /\ uv_layer' = st.uv
           /\ placed_objects' = <<>>
    /\ pc' = "cancelled"
    /\ UNCHANGED <<objs, target_udim_count, idx, source_tiles, tile_to_objects,
                   tile_to_texture, det, comp, arg, ret>>

\* repack_uvs_udim_based: the grid layout and the rewrite of the coordinates
RepackTransform ==
    /\ pc = "detect"
    /\ idx > Len(selected_objects)
    /\ det.tiles # {}
    /\ LET tiles == Sorted(det.tiles)
           st == RepackFrom([uv |-> uv_layer, placed |-> <<>>], det, tiles,
                            target_udim_count, 1)
       IN  /\ plan' = [k \in DOMAIN tiles |-> PlanEntry(tiles, target_udim_count, k)]
           /\ uv_layer' = st.uv
           /\ placed_objects' = st.placed
    /\ pc' = "bake"
    /\ UNCHANGED <<objs, target_udim_count, idx, source_tiles, tile_to_objects,
                   tile_to_texture, det, comp, arg, ret>>

\* bake_combined_texture: no image was found for the channel, the compositor
\* is not tried
BakeWithoutTextures ==
    /\ pc = "bake"
    /\ DOMAIN tile_to_texture = {}
    /\ comp' = [status |-> "fallback"]
    /\ pc' = "done"
    /\ UNCHANGED <<objs, uv_layer, target_udim_count, idx, source_tiles,
                   tile_to_objects, tile_to_texture, det, plan, placed_objects,
                   arg, ret>>

\* composite_textures_with_pil on the placed objects, with the source tile
\* list of the repacking and the channel's tile-to-image map
Composite ==
    /\ pc = "bake"
    /\ DOMAIN tile_to_texture # {}
    /\ LET tiles == Sorted(det.tiles)
           target_tiles == DetectTargetTiles(placed_objects)
       IN  comp' = [status |-> "composited",
                    target_tiles |-> target_tiles,
                    cells |-> CompositeCells(tiles, tile_to_texture, target_tiles)]
    /\ pc' = "done"
    /\ UNCHANGED <<objs, uv_layer, target_udim_count, idx, source_tiles,
                   tile_to_objects, tile_to_texture, det, plan, placed_objects,
                   arg, ret>>

Next ==
    \/ ExecuteNoMesh
    \/ ExecuteNoTextures
    \/ ExecuteBegin
    \/ SurveySocketStep
    \/ SurveySocketReturn
    \/ DetectStep
    \/ RepackEmpty
    \/ RepackTransform
    \/ BakeWithoutTextures
    \/ Composite

(***************************************************************************)
(* The selections the run is checked on.  A mesh object has two loops,     *)
(* whose coordinates are a shape placed in one of the tiles of SourceTiles.*)
(***************************************************************************)
NumObjects == 3
MaxTargets == 5

\* <<column, row>> of the tiles the objects are placed in
SourceTiles == {<<0, 0>>, <<1, 0>>, <<0, 1>>}

\* tile-local coordinates: the whole tile, corner to corner
ShapeFull == <<<<Rat(0, 1), Rat(0, 1)>>, <<Rat(1, 1), Rat(1, 1)>>>>

\* tile-local coordinates strictly inside the tile
ShapeInner == <<<<Rat(1, 4), Rat(1, 4)>>, <<Rat(3, 4), Rat(1, 2)>>>>

\* the shape moved to tile t
ShapeAt(shape, t) ==
    [j \in DOMAIN shape |-> <<RAdd(shape[j][1], RInt(t[1])), RAdd(shape[j][2], RInt(t[2]))>>]

\* a mesh object with the given loops' coordinates
MeshObj(uvs, first_tex, sock_tex) ==
    [type |-> "MESH", has_uv_layer |-> TRUE, uvs |-> uvs,
     first_tex |-> first_tex, sock_tex |-> sock_tex]

OtherObj ==
    [type |-> "EMPTY", has_uv_layer |-> FALSE, uvs |-> <<>>, first_tex |-> 0, sock_tex |-> 0]

\* a mesh without a UV layer
BareMesh(first_tex, sock_tex) ==
    [type |-> "MESH", has_uv_layer |-> FALSE, uvs |-> <<>>,
     first_tex |-> first_tex, sock_tex |-> sock_tex]

\* a mesh with a UV layer and no loops
EmptyMesh(first_tex, sock_tex) == MeshObj(<<>>, first_tex, sock_tex)

InitRun(choices, counts) ==
    /\ pc = "start"
    /\ objs \in [1..NumObjects -> choices]
    /\ uv_layer = [o \in 1..NumObjects |-> objs[o].uvs]
    /\ target_udim_count \in counts
    /\ idx = 0
    /\ source_tiles = {} /\ tile_to_objects = <<>> /\ tile_to_texture = <<>>
    /\ det = EmptySurvey
    /\ plan = <<>> /\ placed_objects = <<>> /\ comp = [status |-> "none"]
    /\ arg = <<>> /\ ret = <<>>

\* objects that differ in tile and shape with target counts up to MaxTargets,
\* or objects some of which lack coordinates or an image with one target tile
Init ==
    \/ InitRun({OtherObj} \cup {MeshObj(ShapeAt(sh, t), 1, 1) :
                                   sh \in {ShapeFull, ShapeInner}, t \in SourceTiles},
               TargetMin..MaxTargets)
    \/ InitRun({OtherObj, BareMesh(1, 1)}
                   \cup {MeshObj(ShapeAt(ShapeInner, <<0, 0>>), x[1], x[2]) :
                            x \in {<<0, 0>>, <<1, 0>>}},
               {TargetMin})

Spec == Init /\ [][Next]_vars

\* objects that differ in kind, tile and images, one target tile
InitSurvey ==
    InitRun({OtherObj, BareMesh(1, 1), EmptyMesh(1, 1)}
                \cup {MeshObj(ShapeAt(ShapeInner, t), x[1], x[2]) :
                         t \in {<<1, 0>>, <<0, 1>>},
                         x \in {<<0, 0>>, <<1, 1>>, <<2, 2>>, <<1, 0>>}},
            {TargetMin})

SpecSurvey == InitSurvey /\ [][Next]_vars

(***************************************************************************)
(* Properties of the run.                                                  *)
(***************************************************************************)
\* the number of positions of sequence s that hold x
Occurrences(s, x) == Cardinality({i \in DOMAIN s : s[i] = x})

\* mesh objects that have texture coordinates
HasCoords(o) == objs[o].type = "MESH" /\ objs[o].has_uv_layer /\ objs[o].uvs # <<>>

\* the tile of object o before the repacking
PrimaryOf(o) == get_object_primary_udim(objs[o])

\* every original coordinate of o is strictly inside its primary tile
StrictlyInside(o) ==
    \A j \in DOMAIN objs[o].uvs :
        /\ ~RIsInt(objs[o].uvs[j][1]) /\ ~RIsInt(objs[o].uvs[j][2])
        /\ get_udim_tile_from_uv(objs[o].uvs[j][1], objs[o].uvs[j][2]) = PrimaryOf(o)

\* every original coordinate of o is in the closed unit square of its primary tile
InClosedTile(o) ==
    LET col == (PrimaryOf(o) - UdimBase) % UdimWidth
        row == (PrimaryOf(o) - UdimBase) \div UdimWidth
    IN  \A j \in DOMAIN objs[o].uvs :
            /\ RLe(RInt(col), objs[o].uvs[j][1]) /\ RLe(objs[o].uvs[j][1], RInt(col + 1))
            /\ RLe(RInt(row), objs[o].uvs[j][2]) /\ RLe(objs[o].uvs[j][2], RInt(row + 1))

\* p is in the closed cell of plan entry e
InCell(p, e) ==
    /\ RLe(RAdd(RInt(e.target_u), Rat(e.cell_col, e.grid_cols)), p[1])
    /\ RLe(p[1], RAdd(RInt(e.target_u), Rat(e.cell_col + 1, e.grid_cols)))
    /\ RLe(RAdd(RInt(e.target_v), Rat(e.cell_row, e.grid_cols)), p[2])
    /\ RLe(p[2], RAdd(RInt(e.target_v), Rat(e.cell_row + 1, e.grid_cols)))

\* C1: when the compositor has run after the repacking on surfaces whose
\* coordinates are inside their primary tiles, the target tile and the cell it
\* computes for every source tile whose image it pastes are the ones of the plan
\* the coordinates were rewritten with.
C1_PlannerCompositorAgree ==
    (/\ pc = "done"
     /\ comp.status = "composited"
     /\ \A o \in DOMAIN objs : HasCoords(o) => StrictlyInside(o))
    => \A k \in DOMAIN comp.cells :
           comp.cells[k].loaded =>
               /\ comp.cells[k].target_tile_num = plan[k].target_tile_num
               /\ comp.cells[k].cell_col = plan[k].cell_col
               /\ comp.cells[k].cell_row = plan[k].cell_row

\* C2: after the repacking, every coordinate of a surface whose coordinates
\* all lie in the closed unit square of its primary tile is the image of the
\* original one under that tile's transform and lies in that tile's closed cell.
C2_RewrittenIntoCell ==
    pc \in {"bake", "done"} =>
        \A o \in DOMAIN objs : \A k \in DOMAIN plan :
            (HasCoords(o) /\ InClosedTile(o) /\ plan[k].source_tile = PrimaryOf(o)) =>
                \A j \in DOMAIN uv_layer[o] :
                    /\ uv_layer[o][j] = TileTransform(objs[o].uvs[j], plan[k])
                    /\ InCell(uv_layer[o][j], plan[k])

\* the four parts of the tile assignment of a finished survey sv
TileAssignmentOk(sv) ==
    /\ \A o \in DOMAIN objs :
           HasCoords(o) =>
               /\ PrimaryOf(o) \in DOMAIN sv.objects
               /\ \A t \in DOMAIN sv.objects :
                      Occurrences(sv.objects[t], o) = IF t = PrimaryOf(o) THEN 1 ELSE 0
    /\ \A t \in sv.tiles : t \in DOMAIN sv.objects /\ Len(sv.objects[t]) >= 1
    /\ LET tiles == Sorted(sv.tiles)
       IN  /\ {tiles[i] : i \in DOMAIN tiles} = sv.tiles
           /\ \A i \in DOMAIN tiles : i > 1 => tiles[i - 1] < tiles[i]
    /\ DOMAIN sv.texture \subseteq sv.tiles

\* C8: a finished survey (of the material's first image or of a channel) has
\* every mesh surface with coordinates in the member list of its primary tile
\* and of no other, a member in every listed tile, a strictly ascending tile
\* list and no image for an unlisted tile; the repacking then handles each
\* such surface once, under one source tile.
C8_TileAssignment ==
    /\ (pc = "detect" \/ pc = "bake" \/ pc = "done") =>
           TileAssignmentOk([tiles |-> source_tiles, objects |-> tile_to_objects,
                             texture |-> tile_to_texture])
    /\ (pc = "bake" \/ pc = "done") =>
           /\ TileAssignmentOk(det)
           /\ \A o \in DOMAIN objs :
                  HasCoords(o) =>
                      /\ Occurrences(placed_objects, o) = 1
                      /\ Cardinality({k \in DOMAIN plan :
                             /\ plan[k].source_tile \in DOMAIN det.objects
                             /\ Occurrences(det.objects[plan[k].source_tile], o) > 0}) = 1

\* two surfaces share a tile, a third tile-less mesh is skipped, and the run ended
C8_Witness ==
    /\ pc = "done"
    /\ \E o1, o2 \in DOMAIN objs :
           /\ o1 < o2 /\ HasCoords(o1) /\ HasCoords(o2)
           /\ PrimaryOf(o1) = PrimaryOf(o2)
           /\ Len(det.objects[PrimaryOf(o1)]) = 2
    /\ \E o \in DOMAIN objs : objs[o].type = "MESH" /\ ~HasCoords(o)

\* the image the first surface of tile t, in input order, resolves to among
\* those that resolve to one; 0 when none does
FirstImage(t, first) ==
    LET cand == {o \in DOMAIN objs :
                    /\ HasCoords(o) /\ PrimaryOf(o) = t
                    /\ (IF first THEN objs[o].first_tex ELSE objs[o].sock_tex) # 0}
        o1 == CHOOSE o \in cand : \A x \in cand : o <= x
    IN  IF cand = {} THEN 0
        ELSE IF first THEN objs[o1].first_tex ELSE objs[o1].sock_tex

\* the map holds, for every tile, the image of FirstImage and nothing else
FirstImages(texture, first) ==
    \A t \in {PrimaryOf(o) : o \in {x \in DOMAIN objs : HasCoords(x)}} :
        IF FirstImage(t, first) = 0 THEN t \notin DOMAIN texture
        ELSE t \in DOMAIN texture /\ texture[t] = FirstImage(t, first)

\* C9: no step of the run changes or removes the representative image a tile
\* already has, in the channel's survey and in the repacking's alike, and when
\* the surveys are over the representative of every tile is the image of the
\* first surface of that tile, in input order, that resolves to an image.
C9_FirstImageWins ==
    /\ [][/\ \A t \in DOMAIN tile_to_texture :
                 t \in DOMAIN tile_to_texture' /\ tile_to_texture'[t] = tile_to_texture[t]
          /\ \A t \in DOMAIN det.texture :
                 t \in DOMAIN det'.texture /\ det'.texture[t] = det.texture[t]]_vars
    /\ []((pc = "bake" \/ pc = "done") =>
             FirstImages(tile_to_texture, FALSE) /\ FirstImages(det.texture, TRUE))

\* two surfaces of one tile resolve to different images and the first one's is kept
C9_Witness ==
    /\ pc = "done"
    /\ \E o1, o2 \in DOMAIN objs :
           /\ o1 < o2 /\ HasCoords(o1) /\ HasCoords(o2)
           /\ PrimaryOf(o1) = PrimaryOf(o2)
           /\ objs[o1].sock_tex # 0 /\ objs[o2].sock_tex # 0
           /\ objs[o1].sock_tex # objs[o2].sock_tex
           /\ tile_to_texture[PrimaryOf(o1)] = objs[o1].sock_tex
           /\ det.texture[PrimaryOf(o1)] = objs[o1].first_tex

\* C15: when the run is cancelled (no mesh object, no channel, no occupied
\* source tile) every texture coordinate is the one the run began with, no
\* plan was applied and no compositing was started.
C15_CancelBeforeMutation ==
    pc = "cancelled" =>
        /\ \A o \in DOMAIN objs : uv_layer[o] = objs[o].uvs
        /\ plan = <<>> /\ placed_objects = <<>>
        /\ comp = [status |-> "none"]

\* a run over a mesh with coordinates and no image anywhere was cancelled
C15_Witness ==
    /\ pc = "cancelled"
    /\ \E o \in DOMAIN objs : HasCoords(o)
    /\ \A o \in DOMAIN objs : uv_layer[o] = objs[o].uvs

\* C18: a step changes a texture coordinate only if it is the repacking, the
\* coordinate's surface is a member of a source tile and the coordinate's own
\* tile is that source tile; no step adds or removes a coordinate, and the
\* coordinates of other objects keep their values.
C18_RepackFrame ==
    [][\A o \in DOMAIN uv_layer :
           /\ o \in DOMAIN uv_layer'
           /\ DOMAIN uv_layer'[o] = DOMAIN uv_layer[o]
           /\ \A j \in DOMAIN uv_layer[o] :
                  uv_layer'[o][j] # uv_layer[o][j] =>
                      /\ pc = "detect" /\ pc' = "bake"
                      /\ objs[o].type = "MESH" /\ objs[o].has_uv_layer
                      /\ \E t \in DOMAIN det.objects :
                             /\ Occurrences(det.objects[t], o) > 0
                             /\ InlineTileOf(uv_layer[o][j]) = t]_vars

\* the repacking moved one coordinate of a surface and left another one of
\* the same surface, whose own tile is not the surface's, where it was
C18_Witness ==
    /\ pc = "bake"
    /\ \E o \in DOMAIN objs : \E j, k \in DOMAIN uv_layer[o] :
           /\ uv_layer[o][j] # objs[o].uvs[j]
           /\ uv_layer[o][k] = objs[o].uvs[k]
           /\ InlineTileOf(objs[o].uvs[k]) # PrimaryOf(o)

(***************************************************************************)
(* SpecTile: get_udim_tile_from_uv and get_object_primary_udim applied to  *)
(* inputs drawn from a grid of coordinates: the half-integers up to        *)
(* MaxCoord and the values 0.001 away from each integer.                   *)
(***************************************************************************)
MaxCoord == 2

Coords ==
    {Rat(k, 2) : k \in 0..(2 * MaxCoord)}
        \cup {RSub(RInt(n), BoundaryEps) : n \in 0..MaxCoord}
        \cup {RAdd(RInt(n), BoundaryEps) : n \in 0..MaxCoord}

Points == Coords \X Coords

Idle ==
    /\ pc = "idle" /\ objs = <<>> /\ uv_layer = <<>> /\ target_udim_count = 1 /\ idx = 0
    /\ source_tiles = {} /\ tile_to_objects = <<>> /\ tile_to_texture = <<>>
    /\ det = <<>> /\ plan = <<>> /\ placed_objects = <<>> /\ comp = <<>>

InitTile ==
    /\ Idle
    /\ arg \in {[uvs |-> <<p, q>>] : p \in Points, q \in Points}
    /\ ret = [op |-> "none"]

CallTileOf ==
    /\ ret.op = "none"
    /\ ret' = [op |-> "get_udim_tile_from_uv",
               value |-> get_udim_tile_from_uv(arg.uvs[1][1], arg.uvs[1][2])]
    /\ UNCHANGED <<arg, pipeVars>>

CallPrimary ==
    /\ ret.op = "none"
    /\ ret' = [op |-> "get_object_primary_udim",
               value |-> get_object_primary_udim(MeshObj(arg.uvs, 0, 0))]
    /\ UNCHANGED <<arg, pipeVars>>

NextTile == CallTileOf \/ CallPrimary

SpecTile == InitTile /\ [][NextTile]_vars

\* the column (or row) the claim assigns to a coordinate value x >= 0
ClaimedIndex(x) ==
    CHOOSE c \in 0..(MaxCoord + 1) :
        \/ x[1] = 0 /\ c = 0
        \/ x = RInt(c + 1)
        \/ RLt(RInt(c), x) /\ RLt(x, RInt(c + 1))

\* C4: get_udim_tile_from_uv(u, v) = 1001 + 10*row + col, where an integer
\* value n >= 1 lies in column (row) n-1 like every value of (n-1, n), and 0
\* lies in column (row) 0.
C4_TileOfBoundary ==
    (ret.op = "get_udim_tile_from_uv"
        /\ RLe(RInt(0), arg.uvs[1][1]) /\ RLe(RInt(0), arg.uvs[1][2]))
    => ret.value = 1001 + 10 * ClaimedIndex(arg.uvs[1][2])
                        + ClaimedIndex(arg.uvs[1][1])

\* C4 witness: the value 2.0 was placed in the tile containing [1, 2), and
\* on the other axis 0 in column (row) 0
C4_Witness ==
    /\ ret.op = "get_udim_tile_from_uv"
    /\ arg.uvs[1] = <<RInt(2), RInt(0)>>
    /\ ret.value = 1002

\* C5: get_object_primary_udim(surface) = get_udim_tile_from_uv(centre of the
\* surface's UV bounding box), integer-valued centres included.
C5_PrimaryIsTileOfCenter ==
    ret.op = "get_object_primary_udim"
    => ret.value = get_udim_tile_from_uv(UvCenter(arg.uvs)[1], UvCenter(arg.uvs)[2])

(***************************************************************************)
(* SpecPlan: the planner's layout arithmetic applied to every source count *)
(* up to MaxSources, every target count the property allows and every      *)
(* rank.                                                                   *)
(***************************************************************************)
MaxSources == 12

InitPlan ==
    /\ Idle
    /\ arg \in {[source_count |-> n, count |-> t, source_idx |-> i] :
                    n \in 1..MaxSources, t \in TargetMin..TargetMax,
                    i \in 0..(MaxSources - 1)}
    /\ arg.source_idx < arg.source_count
    /\ ret = [op |-> "none"]

CallPlacement ==
    /\ ret.op = "none"
    /\ ret' = [op |-> "Placement",
               layout |-> GridLayout(arg.source_count, arg.count),
               place |-> Placement(arg.source_count, arg.count, arg.source_idx)]
    /\ UNCHANGED <<arg, pipeVars>>

NextPlan == CallPlacement

SpecPlan == InitPlan /\ [][NextPlan]_vars

\* the least k in 0..hi with P(k)
Least(P(_), hi) == CHOOSE k \in 0..hi : P(k) /\ \A j \in 0..(k - 1) : ~P(j)

\* C6: with n = ceil(S/T), gridCols is the least c with c*c >= n, gridRows the
\* least r with gridCols*r >= n; so gridCols*gridRows >= n and gridRows <= gridCols.
C6_GridLayout ==
    ret.op = "Placement" =>
        LET n == Least(LAMBDA k : k * arg.count >= arg.source_count, arg.source_count)
            cols == Least(LAMBDA c : c * c >= n, n)
            rows == Least(LAMBDA r : cols * r >= n, n)
        IN  /\ ret.layout.tiles_per_target = n
            /\ ret.layout.grid_cols = cols
            /\ ret.layout.grid_rows = rows
            /\ ret.layout.grid_cols * ret.layout.grid_rows >= n
            /\ ret.layout.grid_rows <= ret.layout.grid_cols

\* C6 witness: a layout that is wider than tall (5 tiles per target: 3 x 2)
C6_Witness ==
    /\ ret.op = "Placement"
    /\ ret.layout.tiles_per_target = 5
    /\ ret.layout.grid_cols = 3
    /\ ret.layout.grid_rows = 2

\* C7: every source tile's target slot is below T; when T > S each source tile
\* has a target tile of its own (slot = rank, the only cell of its grid).
C7_SlotBelowTargetCount ==
    ret.op = "Placement" =>
        /\ ret.place.target_tile_idx < arg.count
        /\ arg.count > arg.source_count =>
              /\ ret.place.target_tile_idx = arg.source_idx
              /\ ret.place.cell_idx = 0
              /\ ret.layout.grid_cols = 1

\* C7 witness: more target tiles than source tiles, last source tile placed
C7_Witness ==
    /\ ret.op = "Placement"
    /\ arg.count > arg.source_count
    /\ arg.source_count = 3
    /\ arg.source_idx = 2
    /\ ret.place.target_tile_idx = 2

(***************************************************************************)
(* SpecPaste: the compositor's pixel rectangle for every cell of every     *)
(* layout up to MaxPasteSources source tiles, at the resolutions           *)
(* ResolutionMin .. ResolutionMin + MaxResolutionStep.                     *)
(***************************************************************************)
MaxPasteSources == 17
MaxPasteTargets == 2
ResolutionMin == 512
MaxResolutionStep == 8

InitPaste ==
    /\ Idle
    /\ arg \in {[source_count |-> n, count |-> t, source_idx |-> i, resolution |-> r] :
                    n \in 1..MaxPasteSources, t \in 1..MaxPasteTargets,
                    i \in 0..(MaxPasteSources - 1),
                    r \in ResolutionMin..(ResolutionMin + MaxResolutionStep)}
    /\ arg.source_idx < arg.source_count
    /\ ret = [op |-> "none"]

CallPaste ==
    /\ ret.op = "none"
    /\ LET g == GridLayout(arg.source_count, arg.count)
           place == Placement(arg.source_count, arg.count, arg.source_idx)
       IN  ret' = [op |-> "PasteBox", layout |-> g, place |-> place,
                   box |-> PasteBox(g.grid_cols, place.cell_col, place.cell_row,
                                    arg.resolution)]
    /\ UNCHANGED <<arg, pipeVars>>

NextPaste == CallPaste

SpecPaste == InitPaste /\ [][NextPaste]_vars

\* C3: for R divisible by gridCols the source image is pasted at pixel column
\* cellCol*R/gridCols and pixel row (1 - cellRow*cellSize - cellSize)*R from the
\* top, with side R/gridCols: the vertical flip of the tile's UV cell.
C3_AxisFlip ==
    (ret.op = "PasteBox" /\ arg.resolution % ret.layout.grid_cols = 0) =>
        LET side == arg.resolution \div ret.layout.grid_cols
        IN  /\ ret.box.cell_size_px = side
            /\ ret.box.px = ret.place.cell_col * side
            /\ ret.box.py = arg.resolution - (ret.place.cell_row + 1) * side

(***************************************************************************)
(* The channel map of one material: get_all_texture_nodes,                 *)
(* get_principled_bsdf_textures and the merge of analyze_materials.        *)
(* A name is a sequence of characters.  An image is named by its name      *)
(* (image datablocks have distinct names), <<>> stands for no image.       *)
(* A material is [use_nodes, nodes, inputs]: nodes[n] is                   *)
(* [type, image, color_link] and inputs are the input sockets              *)
(* [name, link] of its Principled BSDF node; a link is the index of the    *)
(* node it comes from, 0 when the socket is not linked.                    *)
(***************************************************************************)
LowerCase ==
    <<"a", "b", "c", "d", "e", "f", "g", "h", "i", "j", "k", "l", "m",
      "n", "o", "p", "q", "r", "s", "t", "u", "v", "w", "x", "y", "z">>

UpperCase ==
    <<"A", "B", "C", "D", "E", "F", "G", "H", "I", "J", "K", "L", "M",
      "N", "O", "P", "Q", "R", "S", "T", "U", "V", "W", "X", "Y", "Z">>

IsCased(c) == \E i \in DOMAIN LowerCase : c = LowerCase[i] \/ c = UpperCase[i]

ToUpper(c) ==
    IF \E i \in DOMAIN LowerCase : c = LowerCase[i]
    THEN UpperCase[CHOOSE i \in DOMAIN LowerCase : c = LowerCase[i]] ELSE c

ToLower(c) ==
    IF \E i \in DOMAIN UpperCase : c = UpperCase[i]
    THEN LowerCase[CHOOSE i \in DOMAIN UpperCase : c = UpperCase[i]] ELSE c

\* name.split('.')[0]
SplitDotFirst(name) ==
    IF \E i \in DOMAIN name : name[i] = "."
    THEN SubSeq(name, 1, (CHOOSE i \in DOMAIN name :
                             name[i] = "." /\ \A j \in 1..(i - 1) : name[j] # ".") - 1)
    ELSE name

\* s.replace('_', ' ')
ReplaceUnderscore(s) == [i \in DOMAIN s |-> IF s[i] = "_" THEN " " ELSE s[i]]

\* s.title(): a cased character is upper case after an uncased one (or at
\* the start) and lower case after a cased one
Title(s) ==
    [i \in DOMAIN s |->
        IF i > 1 /\ IsCased(s[i - 1]) THEN ToLower(s[i]) ELSE ToUpper(s[i])]

\* the channel name get_all_texture_nodes gives to the image node.image
ImageSocketName(image_name) == Title(ReplaceUnderscore(SplitDotFirst(image_name)))

RECURSIVE ScanNodes(_, _, _)
\* "for node in material.node_tree.nodes" of get_all_texture_nodes from node n on
ScanNodes(nodes, n, textures) ==
    IF n > Len(nodes) THEN textures
    ELSE ScanNodes(nodes, n + 1,
             IF nodes[n].type = "TEX_IMAGE" /\ nodes[n].image # <<>>
             THEN DictPut(textures, ImageSocketName(nodes[n].image),
                          [image |-> nodes[n].image, node |-> n])
             ELSE textures)

\* name -> [image, node] for the image nodes of the material
get_all_texture_nodes(material) ==
    IF ~material.use_nodes THEN <<>> ELSE ScanNodes(material.nodes, 1, <<>>)

\* the node an input socket's image is looked for in: the linked node, or for
\* the Normal socket the node behind a linked normal-map node
LinkedNode(material, input_socket) ==
    LET linked_node == input_socket.link
    IN  IF /\ input_socket.name = <<"N", "o", "r", "m", "a", "l">>
           /\ material.nodes[linked_node].type = "NORMAL_MAP"
           /\ material.nodes[linked_node].color_link # 0
        THEN material.nodes[linked_node].color_link
        ELSE linked_node

RECURSIVE ScanInputs(_, _, _)
\* "for input_socket in principled.inputs" from socket i on; the entries
\* [name, image, node] in the order they are inserted
ScanInputs(material, i, textures) ==
    IF i > Len(material.inputs) THEN textures
    ELSE LET input_socket == material.inputs[i]
             n == LinkedNode(material, input_socket)
         IN  ScanInputs(material, i + 1,
                 IF /\ input_socket.link # 0
                    /\ material.nodes[n].type = "TEX_IMAGE"
                    /\ material.nodes[n].image # <<>>
                 THEN Append(textures, [name |-> input_socket.name,
                                        image |-> material.nodes[n].image,
                                        node |-> n])
                 ELSE textures)

\* the images linked to the inputs of the material's first Principled BSDF node
get_principled_bsdf_textures(material) ==
    IF ~material.use_nodes THEN <<>>
    ELSE IF ~\E n \in DOMAIN material.nodes : material.nodes[n].type = "BSDF_PRINCIPLED"
         THEN <<>>
         ELSE ScanInputs(material, 1, <<>>)

RECURSIVE MergeTextures(_, _, _)
\* "for socket_name, tex_info in pbsdf_textures.items()" from entry i on
MergeTextures(merged_textures, pbsdf_textures, i) ==
    IF i > Len(pbsdf_textures) THEN merged_textures
    ELSE LET tex_info == pbsdf_textures[i]
             image_already_present ==
                 \E k \in DOMAIN merged_textures :
                     merged_textures[k].image = tex_info.image
         IN  MergeTextures(
                 IF ~image_already_present
                 THEN DictPut(merged_textures, tex_info.name,
                              [image |-> tex_info.image, node |-> tex_info.node])
                 ELSE merged_textures,
                 pbsdf_textures, i + 1)

(***************************************************************************)
(* SpecMerge: the channel map of a material with a Principled BSDF node    *)
(* (or another node in its place), MaxImageNodes image nodes and a normal  *)
(* map node, the sockets Normal and Roughness, every way of linking them.  *)
(***************************************************************************)
MaxImageNodes == 3

ImageNames ==
    {<<>>,
     <<"t", "e", "x", ".", "0", "0", "1">>,
     <<"t", "e", "x", ".", "0", "0", "2">>,
     <<"r", "o", "u", "g", "h", "n", "e", "s", "s", ".", "p", "n", "g">>}

Node(type, image, color_link) == [type |-> type, image |-> image, color_link |-> color_link]

Materials ==
    {[use_nodes |-> un,
      nodes |-> <<Node(first, <<>>, 0)>>
                    \o [n \in 1..MaxImageNodes |-> Node("TEX_IMAGE", img[n], 0)]
                    \o <<Node("NORMAL_MAP", <<>>, cl)>>,
      inputs |-> <<[name |-> <<"N", "o", "r", "m", "a", "l">>, link |-> l1],
                   [name |-> <<"R", "o", "u", "g", "h", "n", "e", "s", "s">>, link |-> l2]>>] :
        un \in BOOLEAN, first \in {"BSDF_PRINCIPLED", "MIX"},
        img \in [1..MaxImageNodes -> ImageNames],
        cl \in {0} \cup 2..(MaxImageNodes + 1),
        l1 \in {0} \cup 2..(MaxImageNodes + 2),
        l2 \in {0} \cup 2..(MaxImageNodes + 1)}

InitMerge ==
    /\ Idle
    /\ arg \in Materials
    /\ ret = [op |-> "none"]

\* analyze_materials for one material slot: both scans and the merge
CallAnalyze ==
    /\ ret.op = "none"
    /\ LET pbsdf_textures == get_principled_bsdf_textures(arg)
           all_textures == get_all_texture_nodes(arg)
       IN  ret' = [op |-> "analyze_materials",
                   pbsdf_textures |-> pbsdf_textures,
                   all_textures |-> all_textures,
                   merged_textures |-> MergeTextures(all_textures, pbsdf_textures, 1)]
    /\ UNCHANGED <<arg, pipeVars>>

NextMerge == CallAnalyze

SpecMerge == InitMerge /\ [][NextMerge]_vars

\* the names image img has in dictionary d
NamesOf(d, img) == {k \in DOMAIN d : d[k].image = img}

\* C10: the merged mapping of a material holds no image under two names, and
\* an image that both the scan of the image nodes and the scan of the
\* Principled BSDF inputs found is held under exactly one name.
C10_OneEntryPerImage ==
    ret.op = "analyze_materials" =>
        /\ \A k1, k2 \in DOMAIN ret.merged_textures :
               ret.merged_textures[k1].image = ret.merged_textures[k2].image => k1 = k2
        /\ \A i \in DOMAIN ret.pbsdf_textures :
               (\E k \in DOMAIN ret.all_textures :
                    ret.all_textures[k].image = ret.pbsdf_textures[i].image)
               => Cardinality(NamesOf(ret.merged_textures, ret.pbsdf_textures[i].image)) = 1

\* C11: the image of every image node of the material's network that has an
\* image is the image of some entry of the material's merged mapping.
C11_NoImageDropped ==
    (ret.op = "analyze_materials" /\ arg.use_nodes) =>
        \A n \in DOMAIN arg.nodes :
            (arg.nodes[n].type = "TEX_IMAGE" /\ arg.nodes[n].image # <<>>) =>
                NamesOf(ret.merged_textures, arg.nodes[n].image) # {}

(***************************************************************************)
(* The per-tile lookup of a channel's image: the part of                   *)
(* detect_source_udims_for_socket that resolves a standard socket, and     *)
(* find_connected_texture_recursive, run one loop iteration at a time.     *)
(* Here a node also has inputs, the links of its input sockets in order    *)
(* (0: not linked); the Color input of a normal-map node is its second     *)
(* input.  The search is held in ret:                                      *)
(*   stack    one frame [node, next] per call that is in its loop over     *)
(*            from_node.inputs, innermost last                             *)
(*   visited  the set shared by all calls of a search                      *)
(*   entered  the nodes in the order they were added to visited            *)
(*   texture  the image returned, <<>> for None                            *)
(***************************************************************************)
NormalName == <<"N", "o", "r", "m", "a", "l">>
RoughnessName == <<"R", "o", "u", "g", "h", "n", "e", "s", "s">>

\* the search finished with result texture
Returned(st, texture) == [st EXCEPT !.status = "done", !.texture = texture, !.stack = <<>>]

\* the call without the test of visited (a mutant)
EnterSocket_NoVisitedTest(st, material, link) ==
    IF link = 0 THEN st
    ELSE LET st1 == [st EXCEPT !.visited = @ \cup {link}, !.entered = Append(@, link)]
         IN  IF material.nodes[link].type = "TEX_IMAGE" /\ material.nodes[link].image # <<>>
             THEN Returned(st1, material.nodes[link].image)
             ELSE [st1 EXCEPT !.stack = Append(@, [node |-> link, next |-> 1])]

\* find_connected_texture_recursive(socket, visited) up to its loop, for a
\* socket whose link is link: returns None at once (st unchanged), returns an
\* image, or enters its loop (a new frame)
EnterSocket(st, material, link) ==
    IF link = 0 THEN st
    ELSE IF link \in st.visited THEN st
    ELSE LET st1 == [st EXCEPT !.visited = @ \cup {link}, !.entered = Append(@, link)]
         IN  IF material.nodes[link].type = "TEX_IMAGE" /\ material.nodes[link].image # <<>>
             THEN Returned(st1, material.nodes[link].image)
             ELSE [st1 EXCEPT !.stack = Append(@, [node |-> link, next |-> 1])]

\* the outermost call: a None it returns at once is the result
SearchFrom(st, material, link) ==
    LET st1 == EnterSocket(st, material, link)
    IN  IF st1.status = "searching" /\ st1.stack = <<>> THEN Returned(st1, <<>>) ELSE st1

NewSearch ==
    [op |-> "lookup", status |-> "searching", stack |-> <<>>, visited |-> {},
     entered |-> <<>>, texture |-> <<>>]

\* the lookup of a standard socket starts: the material's Principled BSDF node,
\* its input of that name, the normal-map case, the outermost call
LookupStart ==
    /\ ret.op = "none"
    /\ arg.op = "lookup"
    /\ LET mat == arg.material
           socket == CHOOSE i \in DOMAIN mat.inputs : mat.inputs[i].name = arg.socket_name
       IN  ret' =
             IF \/ ~mat.use_nodes
                \/ ~\E n \in DOMAIN mat.nodes : mat.nodes[n].type = "BSDF_PRINCIPLED"
                \/ ~\E i \in DOMAIN mat.inputs : mat.inputs[i].name = arg.socket_name
             THEN Returned(NewSearch, <<>>)
             ELSE LET link == mat.inputs[socket].link
                  IN  IF /\ arg.socket_name = NormalName
                         /\ link # 0
                         /\ mat.nodes[link].type = "NORMAL_MAP"
                         /\ mat.nodes[link].color_link # 0
                      THEN SearchFrom(NewSearch, mat, mat.nodes[link].color_link)
                      ELSE SearchFrom(NewSearch, mat, link)
    /\ UNCHANGED <<arg, pipeVars>>

\* one iteration of "for input_socket in from_node.inputs" of the innermost call
LookupVisitInput ==
    /\ ret.op = "lookup" /\ ret.status = "searching"
    /\ LET top == ret.stack[Len(ret.stack)]
           inputs == arg.material.nodes[top.node].inputs
       IN  /\ top.next <= Len(inputs)
           /\ ret' = EnterSocket([ret EXCEPT !.stack[Len(ret.stack)].next = top.next + 1],
                                 arg.material, inputs[top.next])
    /\ UNCHANGED <<arg, pipeVars>>

\* the innermost call's loop is over: it returns None to its caller, whose loop
\* goes on, or to the lookup
LookupReturnNone ==
    /\ ret.op = "lookup" /\ ret.status = "searching"
    /\ LET top == ret.stack[Len(ret.stack)]
       IN  /\ top.next > Len(arg.material.nodes[top.node].inputs)
           /\ ret' = IF Len(ret.stack) = 1 THEN Returned(ret, <<>>)
                     ELSE [ret EXCEPT !.stack = SubSeq(@, 1, Len(@) - 1)]
    /\ UNCHANGED <<arg, pipeVars>>

\* the channel map's resolution of the same material, for comparison
CallPrincipled ==
    /\ ret.op = "none"
    /\ arg.op = "principled"
    /\ ret' = [op |-> "get_principled_bsdf_textures",
               textures |-> get_principled_bsdf_textures(arg.material)]
    /\ UNCHANGED <<arg, pipeVars>>

NextGraph == LookupStart \/ LookupVisitInput \/ LookupReturnNone \/ CallPrincipled

(***************************************************************************)
(* SpecGraph: materials whose Principled BSDF node has one input, Normal   *)
(* or Roughness, linked to the first of MaxGraphNodes further nodes.  The  *)
(* first has two inputs and is an image, mix or normal-map node, the       *)
(* others have one input and are image or mix nodes; every input is linked *)
(* to any of the nodes or to none, cycles included.                        *)
(***************************************************************************)
MaxGraphNodes == 3

GraphNode(type, inputs) ==
    [type |-> IF type = "NO_IMAGE" THEN "TEX_IMAGE" ELSE type,
     image |-> IF type = "TEX_IMAGE" THEN <<"a", ".", "p", "n", "g">> ELSE <<>>,
     color_link |-> IF type = "NORMAL_MAP" THEN inputs[2] ELSE 0,
     inputs |-> inputs]

GraphLinks == {0} \cup 2..(MaxGraphNodes + 1)

\* the materials with a linked socket
GraphMaterials ==
    {[use_nodes |-> TRUE,
      nodes |-> <<GraphNode("BSDF_PRINCIPLED", <<>>), GraphNode(t1, <<a, b>>)>>
                  \o [n \in 1..(MaxGraphNodes - 1) |-> GraphNode(ty[n], <<ln[n]>>)],
      inputs |-> <<[name |-> name, link |-> 2]>>] :
        name \in {NormalName, RoughnessName},
        t1 \in {"TEX_IMAGE", "MIX", "NORMAL_MAP"},
        a \in GraphLinks, b \in GraphLinks,
        ty \in [1..(MaxGraphNodes - 1) -> {"TEX_IMAGE", "MIX"}],
        ln \in [1..(MaxGraphNodes - 1) -> GraphLinks]}

\* materials without nodes in use, without a Principled BSDF node or with an
\* unlinked socket, and one whose image node has no image
PlainMaterials ==
    {[use_nodes |-> un,
      nodes |-> <<GraphNode(first, <<>>), GraphNode(t1, <<0, 0>>)>>,
      inputs |-> <<[name |-> name, link |-> l]>>] :
        un \in BOOLEAN, first \in {"BSDF_PRINCIPLED", "MIX"},
        t1 \in {"TEX_IMAGE", "NO_IMAGE"},
        name \in {NormalName, RoughnessName}, l \in {0, 2}}

InitGraph ==
    /\ Idle
    /\ arg \in {[op |-> o, material |-> m, socket_name |-> m.inputs[1].name] :
                  o \in {"lookup", "principled"}, m \in GraphMaterials \cup PlainMaterials}
    /\ ret = [op |-> "none"]

\* a search that has begun goes on while it can
SpecGraph == InitGraph /\ [][NextGraph]_vars /\ WF_vars(NextGraph)

RECURSIVE ReachFrom(_, _, _)
\* the nodes reached from the nodes of frontier by following links backward
ReachFrom(material, frontier, seen) ==
    IF frontier = {} THEN seen
    ELSE LET n == CHOOSE x \in frontier : TRUE
             next == {material.nodes[n].inputs[i] : i \in DOMAIN material.nodes[n].inputs}
                        \ ({0, n} \cup seen)
         IN  ReachFrom(material, (frontier \ {n}) \cup next, seen \cup {n})

\* the images of the image nodes reachable backward from a socket linked to link
ReachableImages(material, link) ==
    IF link = 0 THEN {}
    ELSE {material.nodes[n].image :
            n \in {x \in ReachFrom(material, {link}, {}) :
                     material.nodes[x].type = "TEX_IMAGE" /\ material.nodes[x].image # <<>>}}

\* get_principled_bsdf_textures has an entry for the socket
HasChannel(material, socket_name) ==
    \E i \in DOMAIN get_principled_bsdf_textures(material) :
        get_principled_bsdf_textures(material)[i].name = socket_name

\* C12: when the material's Principled BSDF socket is linked and an image node
\* with an image is reachable backward from it through any number of nodes,
\* get_principled_bsdf_textures yields the channel with a reachable image and
\* so does the per-tile lookup; and the two always agree on whether the
\* channel has an image.
C12_MultiHopResolution ==
    LET mat == arg.material
        imgs == ReachableImages(mat, mat.inputs[1].link)
        linked == /\ mat.use_nodes
                  /\ mat.nodes[1].type = "BSDF_PRINCIPLED"
                  /\ imgs # {}
    IN  /\ (ret.op = "get_principled_bsdf_textures" /\ linked) =>
               \E i \in DOMAIN ret.textures :
                   ret.textures[i].name = arg.socket_name /\ ret.textures[i].image \in imgs
        /\ (ret.op = "lookup" /\ ret.status = "done") =>
               /\ linked => ret.texture \in imgs
               /\ (ret.texture # <<>>) <=> HasChannel(mat, arg.socket_name)

\* C13: a lookup enters no node twice, holds no more calls than it has
\* entered nodes, and ends; it ends with an image of the network or with no
\* image, and with no image when the socket is not linked or no image node
\* with an image is reachable, cyclic networks included.
C13_CycleSafe ==
    /\ [](ret.op = "lookup" =>
             /\ \A i, j \in DOMAIN ret.entered : ret.entered[i] = ret.entered[j] => i = j
             /\ ret.visited = {ret.entered[i] : i \in DOMAIN ret.entered}
             /\ Len(ret.stack) <= Len(ret.entered)
             /\ ret.status = "done" =>
                    /\ ret.texture \in ReachableImages(arg.material, arg.material.inputs[1].link)
                                          \cup {<<>>}
                    /\ ReachableImages(arg.material, arg.material.inputs[1].link) = {}
                           => ret.texture = <<>>)
    /\ <>(arg.op = "lookup" => (ret.op = "lookup" /\ ret.status = "done"))

\* a search that went round a cycle back to the node it entered first and
\* ended without an image
C13_Witness ==
    /\ ret.op = "lookup" /\ ret.status = "done" /\ ret.texture = <<>>
    /\ Len(ret.entered) >= 2
    /\ \E n \in ret.visited : \E i \in DOMAIN arg.material.nodes[n].inputs :
           n # ret.entered[1] /\ arg.material.nodes[n].inputs[i] = ret.entered[1]

(***************************************************************************)
(* calculate_lossless_resolution.  An object here also has images, the     *)
(* sizes <<width, height>> of the images of the image nodes of its         *)
(* materials that use nodes, in the order the code meets them.             *)
(***************************************************************************)
ResolutionMax == 8192
DefaultTextureSize == 1024
DefaultLossless == 2048

Max2(a, b) == IF a >= b THEN a ELSE b
Min2(a, b) == IF a <= b THEN a ELSE b

\* the size of the first image with positive width and height, else the default
get_object_texture_resolution(obj) ==
    IF \E i \in DOMAIN obj.images : obj.images[i][1] > 0 /\ obj.images[i][2] > 0
    THEN obj.images[CHOOSE i \in DOMAIN obj.images :
                        /\ obj.images[i][1] > 0 /\ obj.images[i][2] > 0
                        /\ \A j \in 1..(i - 1) : ~(obj.images[j][1] > 0 /\ obj.images[j][2] > 0)]
    ELSE <<DefaultTextureSize, DefaultTextureSize>>

RECURSIVE CeilLog2From(_, _)
CeilLog2From(n, k) == IF 2 ^ k >= n THEN k ELSE CeilLog2From(n, k + 1)

\* math.ceil(math.log2(n)) for an integer n >= 1: the logarithm of a power
\* of two is exact and that of any other n below 2^31 is strictly between
\* the neighbouring integers
CeilLog2(n) == CeilLog2From(n, 0)

\* the objects the function does not skip
LosslessUsable(objects) ==
    {i \in DOMAIN objects : objects[i].type = "MESH" /\ objects[i].has_uv_layer}

\* source_resolution: the larger dimension for the first usable object, 0 for None
SourceResolution(objects) ==
    IF LosslessUsable(objects) = {} THEN 0
    ELSE LET first == CHOOSE i \in LosslessUsable(objects) :
                          \A j \in LosslessUsable(objects) : i <= j
             size == get_object_texture_resolution(objects[first])
         IN  Max2(size[1], size[2])

\* the tiles of all coordinates of the usable objects
LosslessTiles(objects) ==
    UNION {{InlineTileOf(objects[i].uvs[j]) : j \in DOMAIN objects[i].uvs} :
             i \in LosslessUsable(objects)}

\* grid_cols of calculate_lossless_resolution
LosslessGridCols(objects, count) ==
    LET source_count == IF LosslessTiles(objects) = {} THEN 1
                        ELSE Cardinality(LosslessTiles(objects))
    IN  GridLayout(source_count, count).grid_cols

calculate_lossless_resolution(objects, count) ==
    LET source_resolution == SourceResolution(objects)
        grid_cols == LosslessGridCols(objects, count)
        output_resolution == 2 ^ CeilLog2(source_resolution * grid_cols)
    IN  IF source_resolution = 0 THEN DefaultLossless
        ELSE Max2(ResolutionMin, Min2(ResolutionMax, output_resolution))

(***************************************************************************)
(* SpecLossless: NumObjects objects, each no mesh, a mesh without a UV     *)
(* layer or a mesh in one of the tiles of SourceTiles with one of a few    *)
(* lists of image sizes, and one or two target tiles.                      *)
(***************************************************************************)
ImageSizeLists ==
    {<<>>, <<<<512, 512>>>>, <<<<2048, 1024>>>>, <<<<0, 0>>, <<3000, 4096>>>>,
     <<<<100, 60>>, <<512, 512>>>>}

WithImages(obj, images) ==
    [type |-> obj.type, has_uv_layer |-> obj.has_uv_layer, uvs |-> obj.uvs,
     first_tex |-> obj.first_tex, sock_tex |-> obj.sock_tex, images |-> images]

InitLossless ==
    /\ Idle
    /\ arg \in {[objects |-> o, target_udim_count |-> c] :
                  o \in [1..NumObjects ->
                           {WithImages(OtherObj, <<>>), WithImages(BareMesh(1, 1), <<<<512, 512>>>>)}
                             \cup {WithImages(MeshObj(ShapeAt(ShapeInner, t), Len(im), Len(im)), im) :
                                      t \in SourceTiles, im \in ImageSizeLists}],
                  c \in TargetMin..(TargetMin + 1)}
    /\ ret = [op |-> "none"]

CallLossless ==
    /\ ret.op = "none"
    /\ ret' = [op |-> "calculate_lossless_resolution",
               value |-> calculate_lossless_resolution(arg.objects, arg.target_udim_count)]
    /\ UNCHANGED <<arg, pipeVars>>

NextLossless == CallLossless

SpecLossless == InitLossless /\ [][NextLossless]_vars

\* the largest dimension of the images found on the usable objects, 0 if none
LargestDimension(objects) ==
    LET dims == UNION {{Max2(objects[i].images[j][1], objects[i].images[j][2]) :
                          j \in DOMAIN objects[i].images} : i \in LosslessUsable(objects)}
    IN  IF dims = {} THEN 0 ELSE CHOOSE d \in dims : \A e \in dims : e <= d

\* C14: the result is a power of two between 512 and 8192, and when an image
\* is found on the surfaces it is the largest dimension of any such image times
\* grid_cols, rounded up to a power of two and clamped to that range.
C14_LosslessResolution ==
    ret.op = "calculate_lossless_resolution" =>
        /\ \E k \in 9..13 : ret.value = 2 ^ k
        /\ LargestDimension(arg.objects) > 0 =>
               LET tiles == LosslessTiles(arg.objects)
                   grid_cols == CeilSqrt(CeilDiv(Cardinality(tiles), arg.target_udim_count))
                   wanted == LargestDimension(arg.objects) * grid_cols
                   pow2 == CHOOSE x \in {2 ^ k : k \in 0..20} :
                               x >= wanted /\ \A y \in {2 ^ k : k \in 0..20} : y >= wanted => x <= y
               IN  ret.value = Max2(512, Min2(8192, pow2))

(***************************************************************************)
(* The bake loop of execute over the channels of the channel map, with     *)
(* images that may fail to load.  arg is                                   *)
(*   source_tiles  the sorted source tile list of the repacking            *)
(*   target_tiles  the sorted tiles of the repacked coordinates            *)
(*   channels      per channel its tile-to-image map (the pre-detected     *)
(*                 socket_texture_mappings entry)                          *)
(*   loadable      the images that the compositor manages to load          *)
(*   pil           whether PIL can be imported                             *)
(* and ret holds next, the index of the channel to bake, and baked, the    *)
(* outcome of each channel baked so far.                                   *)
(***************************************************************************)
\* source_udim_to_pil: the mapped tiles whose image loaded
LoadedTiles(tiles, source_tile_to_texture, loadable) ==
    [t \in {x \in DOMAIN source_tile_to_texture :
              /\ \E i \in DOMAIN tiles : tiles[i] = x
              /\ source_tile_to_texture[x] \in loadable} |-> source_tile_to_texture[t]]

\* the channel's outcome when the compositor is not used or returns None
FallbackOutcome(composite) ==
    [path |-> "fallback", composite |-> composite, tile_images |-> {}, cells |-> <<>>]

\* baked_images = {}: the loop begins
BakeLoopStart ==
    /\ ret.op = "none"
    /\ ret' = [op |-> "bake", next |-> 1, baked |-> <<>>]
    /\ UNCHANGED <<arg, pipeVars>>

\* bake_combined_texture with an empty tile-to-image map, or without PIL:
\* Blender baking
BakeChannelFallback ==
    /\ ret.op = "bake" /\ ret.next <= Len(arg.channels)
    /\ DOMAIN arg.channels[ret.next] = {} \/ ~arg.pil
    /\ ret' = [ret EXCEPT !.next = @ + 1,
                          !.baked = Append(@, FallbackOutcome(
                              IF DOMAIN arg.channels[ret.next] = {} THEN "not_called"
                              ELSE "none"))]
    /\ UNCHANGED <<arg, pipeVars>>

\* the abort that has made the blank target tile images first (a mutant)
BakeChannelAbort_AfterTileImages ==
    /\ ret.op = "bake" /\ ret.next <= Len(arg.channels)
    /\ DOMAIN arg.channels[ret.next] # {} /\ arg.pil
    /\ DOMAIN LoadedTiles(arg.source_tiles, arg.channels[ret.next], arg.loadable) = {}
    /\ ret' = [ret EXCEPT !.next = @ + 1,
                          !.baked = Append(@, [FallbackOutcome("none") EXCEPT
                              !.tile_images = {arg.target_tiles[i] : i \in DOMAIN arg.target_tiles}])]
    /\ UNCHANGED <<arg, pipeVars>>

\* composite_textures_with_pil loads no image and returns None;
\* bake_combined_texture falls back to Blender baking
BakeChannelAbort ==
    /\ ret.op = "bake" /\ ret.next <= Len(arg.channels)
    /\ DOMAIN arg.channels[ret.next] # {} /\ arg.pil
    /\ DOMAIN LoadedTiles(arg.source_tiles, arg.channels[ret.next], arg.loadable) = {}
    /\ ret' = [ret EXCEPT !.next = @ + 1, !.baked = Append(@, FallbackOutcome("none"))]
    /\ UNCHANGED <<arg, pipeVars>>

\* composite_textures_with_pil loads an image: the blank target tile images
\* are made, the loaded images pasted and the tiles saved
BakeChannelComposite ==
    /\ ret.op = "bake" /\ ret.next <= Len(arg.channels)
    /\ DOMAIN arg.channels[ret.next] # {} /\ arg.pil
    /\ DOMAIN LoadedTiles(arg.source_tiles, arg.channels[ret.next], arg.loadable) # {}
    /\ ret' = [ret EXCEPT
                 !.next = @ + 1,
                 !.baked = Append(@,
                     [path |-> "pil", composite |-> "tiles",
                      tile_images |-> {arg.target_tiles[i] : i \in DOMAIN arg.target_tiles},
                      cells |-> CompositeCells(arg.source_tiles,
                                    LoadedTiles(arg.source_tiles, arg.channels[ret.next],
                                                arg.loadable),
                                    arg.target_tiles)])]
    /\ UNCHANGED <<arg, pipeVars>>

NextBake ==
    \/ BakeLoopStart
    \/ BakeChannelFallback
    \/ BakeChannelAbort
    \/ BakeChannelComposite

(***************************************************************************)
(* SpecBake: one or two source tiles packed into one target tile,          *)
(* MaxChannels channels whose maps give each source tile no image or one   *)
(* of two images, every set of loadable images, PIL present or not.        *)
(***************************************************************************)
MaxChannels == 2

BakeImages == {1, 2}

\* the tile-to-image maps over the tiles of the list tiles
TileMaps(tiles) ==
    UNION {[D -> BakeImages] : D \in SUBSET {tiles[i] : i \in DOMAIN tiles}}

InitBake ==
    /\ Idle
    /\ arg \in UNION {{[source_tiles |-> st, target_tiles |-> <<UdimBase>>,
                        channels |-> ch, loadable |-> ld, pil |-> p] :
                          ch \in [1..MaxChannels -> TileMaps(st)],
                          ld \in SUBSET BakeImages, p \in BOOLEAN} :
                      st \in {<<UdimBase>>, <<UdimBase, UdimBase + 1>>}}
    /\ ret = [op |-> "none"]

\* the loop over the channels goes on while a channel is left
SpecBake == InitBake /\ [][NextBake]_vars /\ WF_vars(NextBake)

\* C16: a channel none of whose images loads is baked by the fallback path, the
\* compositor having returned None and made no target tile image; and the loop
\* bakes every channel of the channel map, each exactly once, whatever the
\* outcome of the others.
C16_AbortPerChannel ==
    /\ [](ret.op = "bake" =>
             /\ Len(ret.baked) = ret.next - 1
             /\ \A c \in DOMAIN ret.baked :
                    (\A t \in DOMAIN arg.channels[c] : arg.channels[c][t] \notin arg.loadable) =>
                        /\ ret.baked[c].path = "fallback"
                        /\ ret.baked[c].composite \in {"none", "not_called"}
                        /\ ret.baked[c].tile_images = {})
    /\ <>(ret.op = "bake" /\ Len(ret.baked) = Len(arg.channels))

\* the first channel's images did not load, it fell back, and the second
\* channel was composited after it
C16_Witness ==
    /\ ret.op = "bake" /\ Len(ret.baked) >= 2
    /\ DOMAIN arg.channels[1] # {} /\ arg.pil
    /\ \A t \in DOMAIN arg.channels[1] : arg.channels[1][t] \notin arg.loadable
    /\ ret.baked[1].path = "fallback" /\ ret.baked[1].composite = "none"
    /\ ret.baked[2].path = "pil"

(***************************************************************************)
(* load_udim_image_from_tiles: the colour space given to the image made    *)
(* from the composited tiles.  arg is the channel's name and entries, the  *)
(* colour space names of the images of texture_map[socket_name] in order;  *)
(* a colour space name is a sequence of characters.                        *)
(***************************************************************************)
SRgbName == <<"s", "R", "G", "B">>
NonColorName == <<"N", "o", "n", "-", "C", "o", "l", "o", "r">>
LinearName == <<"L", "i", "n", "e", "a", "r">>

BaseColorName == <<"B", "a", "s", "e", " ", "C", "o", "l", "o", "r">>
EmissionName == <<"E", "m", "i", "s", "s", "i", "o", "n">>
EmissionColorName == <<"E", "m", "i", "s", "s", "i", "o", "n", " ", "C", "o", "l", "o", "r">>
SubsurfaceColorName ==
    <<"S", "u", "b", "s", "u", "r", "f", "a", "c", "e", " ", "C", "o", "l", "o", "r">>

\* socket_name in ['Base Color', 'Emission Color', 'Emission', 'Subsurface Color']
is_color_data(socket_name) ==
    socket_name \in {BaseColorName, EmissionColorName, EmissionName, SubsurfaceColorName}

\* s.strip() is the empty string
StripsToEmpty(s) == \A i \in DOMAIN s : s[i] = " "

\* the colour space name load_udim_image_from_tiles sets on the new image
load_udim_colorspace(socket_name, entries) ==
    LET original_colorspace ==
            IF is_color_data(socket_name) /\ entries # <<>> THEN entries[1] ELSE SRgbName
    IN  IF ~is_color_data(socket_name) THEN NonColorName
        ELSE IF ~StripsToEmpty(original_colorspace) THEN original_colorspace
        ELSE SRgbName

(***************************************************************************)
(* SpecTag: the colour spaces of up to MaxEntries source images, and two   *)
(* colour channels, a standard data channel and a channel named after an   *)
(* image.                                                                  *)
(***************************************************************************)
MaxEntries == 2

ColorSpaces == {SRgbName, NonColorName, LinearName, <<>>, <<" ">>}

InitTag ==
    /\ Idle
    /\ arg \in {[socket_name |-> n, entries |-> e] :
                  n \in {BaseColorName, EmissionName, RoughnessName, <<"T", "e", "x">>},
                  e \in UNION {[1..k -> ColorSpaces] : k \in 1..MaxEntries}}
    /\ ret = [op |-> "none"]

CallLoadUdim ==
    /\ ret.op = "none"
    /\ ret' = [op |-> "load_udim_image_from_tiles",
               colorspace |-> load_udim_colorspace(arg.socket_name, arg.entries)]
    /\ UNCHANGED <<arg, pipeVars>>

NextTag == CallLoadUdim

SpecTag == InitTag /\ [][NextTag]_vars

\* C17: whatever the channel's name, the new image has the colour space of the
\* channel's source image, or sRGB when that one is empty or blank.
C17_ColorSpaceInherited ==
    ret.op = "load_udim_image_from_tiles" =>
        ret.colorspace = IF StripsToEmpty(arg.entries[1]) THEN SRgbName ELSE arg.entries[1]

(***************************************************************************)
(* SpecIndex: get_udim_tile_from_uv (and get_object_primary_udim) on the   *)
(* half-integer coordinates up to MaxWideCoord, which reach beyond the     *)
(* tenth column.                                                           *)
(***************************************************************************)
MaxWideCoord == 11

WideCoords == {Rat(k, 2) : k \in 0..(2 * MaxWideCoord)}

InitIndex ==
    /\ Idle
    /\ arg \in {[uvs |-> <<<<u, v>>, <<u, v>>>>] : u \in WideCoords, v \in WideCoords}
    /\ ret = [op |-> "none"]

SpecIndex == InitIndex /\ [][NextTile]_vars

\* C19: the tile number of (u, v) gives back, by (number - 1001) mod 10 and
\* (number - 1001) div 10, the column and the row it was built from, and u
\* minus that column and v minus that row are in [0, 1].
C19_LosslessTileIndex ==
    ret.op = "get_udim_tile_from_uv" =>
        LET u == arg.uvs[1][1]
            v == arg.uvs[1][2]
            col == (ret.value - UdimBase) % UdimWidth
            row == (ret.value - UdimBase) \div UdimWidth
        IN  /\ col = Floor(BoundaryAdjust(u))
            /\ row = Floor(BoundaryAdjust(v))
            /\ RLe(RInt(col), u) /\ RLe(u, RInt(col + 1))
            /\ RLe(RInt(row), v) /\ RLe(v, RInt(row + 1))

(***************************************************************************)
(* SpecShift: get_udim_tile_from_uv at an integer point (u, v) with        *)
(* coordinates up to MaxShiftCoord and at (u - eps, v - eps).              *)
(***************************************************************************)
MaxShiftCoord == 9

Epsilons == {Rat(1, 1000), Rat(1, 4), Rat(1, 2)}

InitShift ==
    /\ Idle
    /\ arg \in {[uvs |-> <<<<RInt(u), RInt(v)>>>>, eps |-> e] :
                  u \in 0..MaxShiftCoord, v \in 0..MaxShiftCoord, e \in Epsilons}
    /\ ret = [op |-> "none"]

CallTileOfShifted ==
    /\ ret.op = "none"
    /\ ret' = [op |-> "get_udim_tile_from_uv",
               value |-> get_udim_tile_from_uv(arg.uvs[1][1], arg.uvs[1][2]),
               shifted |-> get_udim_tile_from_uv(RSub(arg.uvs[1][1], arg.eps),
                                                 RSub(arg.uvs[1][2], arg.eps))]
    /\ UNCHANGED <<arg, pipeVars>>

NextShift == CallTileOfShifted

SpecShift == InitShift /\ [][NextShift]_vars

\* C20 as stated: for all non-negative integers u and v the tile of (u, v) is
\* the tile of (u - eps, v - eps).
C20_BoundaryBindsBelow ==
    ret.op = "get_udim_tile_from_uv" => ret.value = ret.shifted

\* C20 amended: for all integers u >= 1 and v >= 1 the tile of (u, v) is the
\* tile of (u - eps, v - eps), for 0 < eps < 1.
C20_PositiveBoundaryBindsBelow ==
    (/\ ret.op = "get_udim_tile_from_uv"
     /\ RLe(RInt(1), arg.uvs[1][1]) /\ RLe(RInt(1), arg.uvs[1][2]))
    => ret.value = ret.shifted

\* (2, 1) and (1.999, 0.999) are both in tile 1002
C20_Witness ==
    /\ ret.op = "get_udim_tile_from_uv"
    /\ arg.uvs[1] = <<RInt(2), RInt(1)>> /\ arg.eps = Rat(1, 1000)
    /\ ret.value = 1002 /\ ret.shifted = 1002

(***************************************************************************)
(* The boundary example: get_udim_tile_from_uv at (1.0, 0.0) and at        *)
(* (0.999, 0.0), under SpecTile.                                           *)
(***************************************************************************)
BoundaryExample == {<<RInt(1), RInt(0)>>, <<RSub(RInt(1), BoundaryEps), RInt(0)>>}

\* C21 as stated: get_udim_tile_from_uv(1.0, 0.0) and
\* get_udim_tile_from_uv(0.999, 0.0) are equal, and both are 1002.
C21_BoundaryExample ==
    (ret.op = "get_udim_tile_from_uv" /\ arg.uvs[1] \in BoundaryExample)
    => ret.value = 1002

\* C21 amended: get_udim_tile_from_uv(1.0, 0.0) and
\* get_udim_tile_from_uv(0.999, 0.0) are equal, and both are 1001.
C21_BoundaryExampleFirstTile ==
    (ret.op = "get_udim_tile_from_uv" /\ arg.uvs[1] \in BoundaryExample)
    => ret.value = 1001

\* the call at (1.0, 0.0) has returned 1001
C21_Witness ==
    /\ ret.op = "get_udim_tile_from_uv"
    /\ arg.uvs[1] = <<RInt(1), RInt(0)>>
    /\ ret.value = 1001

(***************************************************************************)
(* SpecTranslate: get_object_primary_udim of a two-corner surface and of   *)
(* the same surface moved by a whole number of tiles (dx, dy), up to       *)
(* MaxOffset tiles either way on each axis.                                *)
(***************************************************************************)
MaxOffset == 1

HalfPoints == {<<Rat(j, 2), Rat(k, 2)>> : j, k \in 0..(2 * MaxCoord)}

Translate(uvs, dx, dy) ==
    [i \in DOMAIN uvs |-> <<RAdd(uvs[i][1], RInt(dx)), RAdd(uvs[i][2], RInt(dy))>>]

InitTranslate ==
    /\ Idle
    /\ arg \in {[uvs |-> <<p, q>>, dx |-> dx, dy |-> dy] :
                  p \in Points, q \in HalfPoints,
                  dx \in (-MaxOffset)..MaxOffset, dy \in (-MaxOffset)..MaxOffset}
    /\ ret = [op |-> "none"]

CallPrimaryTranslated ==
    /\ ret.op = "none"
    /\ ret' = [op |-> "get_object_primary_udim",
               value |-> get_object_primary_udim(MeshObj(arg.uvs, 0, 0)),
               translated |-> get_object_primary_udim(
                                  MeshObj(Translate(arg.uvs, arg.dx, arg.dy), 0, 0))]
    /\ UNCHANGED <<arg, pipeVars>>

NextTranslate == CallPrimaryTranslated

SpecTranslate == InitTranslate /\ [][NextTranslate]_vars

\* C22: moving every coordinate of a surface by the whole-tile offset (dx, dy)
\* changes get_object_primary_udim by exactly dx + 10*dy.
C22_PrimaryTracksTranslation ==
    ret.op = "get_object_primary_udim"
    => ret.translated = ret.value + arg.dx + 10 * arg.dy

\* a surface centred in tile 1001 moved one tile right and one tile up: 1012
C22_Witness ==
    /\ ret.op = "get_object_primary_udim"
    /\ arg.dx = 1 /\ arg.dy = 1
    /\ UvCenter(arg.uvs) = <<Rat(1, 2), Rat(1, 2)>>
    /\ ret.value = 1001 /\ ret.translated = 1012

(***************************************************************************)
(* The order of the cells, under SpecPlan.                                 *)
(***************************************************************************)
\* C23: four source tiles in one target tile give a 2 x 2 grid of cells of
\* size 1/2, and the tile of rank 2 goes to target tile 1001, cell column 0,
\* cell row 1; in general the rank is slot * tilesPerTarget + cellRow * gridCols
\* + cellCol, the cells of a target tile being filled row by row without gaps.
C23_RowMajorDense ==
    ret.op = "Placement" =>
        /\ (arg.source_count = 4 /\ arg.count = 1) =>
              /\ ret.layout.grid_cols = 2 /\ ret.layout.grid_rows = 2
              /\ Rat(1, ret.layout.grid_cols) = <<1, 2>>
              /\ arg.source_idx = 2 =>
                    /\ ret.place.target_tile_num = 1001
                    /\ ret.place.cell_col = 0 /\ ret.place.cell_row = 1
        /\ arg.source_idx = ret.place.target_tile_idx * ret.layout.tiles_per_target
                                + ret.place.cell_row * ret.layout.grid_cols
                                + ret.place.cell_col
        /\ ret.place.cell_col \in 0..(ret.layout.grid_cols - 1)
        /\ ret.place.cell_row * ret.layout.grid_cols + ret.place.cell_col
               \in 0..(ret.layout.tiles_per_target - 1)

\* the tile of rank 2 of four, one target tile, placed
C23_Witness ==
    /\ ret.op = "Placement"
    /\ arg.source_count = 4 /\ arg.count = 1 /\ arg.source_idx = 2
    /\ ret.place.target_tile_num = 1001
    /\ ret.place.cell_col = 0 /\ ret.place.cell_row = 1

(***************************************************************************)
(* One source tile and one target tile, under Spec.                        *)
(***************************************************************************)
\* the coordinates the objects had when the operator started
OriginalUv == [o \in DOMAIN objs |-> objs[o].uvs]

SinglePlan ==
    /\ pc \in {"bake", "done"}
    /\ Len(plan) = 1 /\ target_udim_count = 1

UnitGrid ==
    /\ GridLayout(Len(plan), target_udim_count).grid_cols = 1
    /\ GridLayout(Len(plan), target_udim_count).grid_rows = 1
    /\ plan[1].grid_cols = 1
    /\ plan[1].cell_col = 0 /\ plan[1].cell_row = 0

\* C24 as stated: with one source tile and one target tile the grid is 1 x 1,
\* the cell offset is (0, 0), the source tile is its own target tile and no
\* coordinate is changed by the repacking.
C24_IdentityPlan ==
    SinglePlan =>
        /\ UnitGrid
        /\ plan[1].target_tile_num = plan[1].source_tile
        /\ uv_layer = OriginalUv

\* C24 amended: with one source tile and one target tile the grid is 1 x 1, the
\* cell offset is (0, 0) and the target tile is 1001; a coordinate found in
\* the source tile is moved by the whole-tile offset from the source tile to
\* 1001 and by nothing else, every other coordinate is left alone; so when the
\* source tile is 1001 no coordinate is changed.
C24_SingleTileMovedTo1001 ==
    SinglePlan =>
        /\ UnitGrid
        /\ plan[1].target_tile_num = UdimBase
        /\ \A o \in DOMAIN uv_layer : \A j \in DOMAIN uv_layer[o] :
              LET p == OriginalUv[o][j]
              IN  uv_layer[o][j] =
                      IF InlineTileOf(p) = plan[1].source_tile
                      THEN <<RSub(p[1], RInt(plan[1].source_u)),
                             RSub(p[2], RInt(plan[1].source_v))>>
                      ELSE p
        /\ plan[1].source_tile = UdimBase => uv_layer = OriginalUv

\* the repacking has run on objects that are all in tile 1001
C24_Witness ==
    /\ SinglePlan
    /\ placed_objects # <<>>
    /\ plan[1].source_tile = UdimBase
    /\ uv_layer = OriginalUv

(***************************************************************************)
(* SpecPlanAll: the placements of all the source tiles of one repacking,   *)
(* for every source count up to MaxSources and every target count the      *)
(* property allows.                                                        *)
(***************************************************************************)
InitPlanAll ==
    /\ Idle
    /\ arg \in {[source_count |-> n, count |-> t] :
                    n \in 1..MaxSources, t \in TargetMin..TargetMax}
    /\ ret = [op |-> "none"]

\* "for source_idx, source_tile in enumerate(source_tiles)": the placements
CallPlanAll ==
    /\ ret.op = "none"
    /\ ret' = [op |-> "Plan",
               places |-> [k \in 1..arg.source_count |->
                              Placement(arg.source_count, arg.count, k - 1)]]
    /\ UNCHANGED <<arg, pipeVars>>

NextPlanAll == CallPlanAll

SpecPlanAll == InitPlanAll /\ [][NextPlanAll]_vars

\* C25: no two source tiles of a repacking get the same (target tile number,
\* cell column, cell row); the target tile number of slot s is
\* 1001 + 10*(s div ceil(sqrt(T))) + s mod ceil(sqrt(T)), and two different
\* slots have different target tile numbers.
C25_PlacementInjective ==
    ret.op = "Plan" =>
        \A i \in DOMAIN ret.places :
            LET a == ret.places[i]
                row == CeilSqrt(arg.count)
            IN  /\ a.target_tile_num =
                       1001 + 10 * (a.target_tile_idx \div row) + (a.target_tile_idx % row)
                /\ \A j \in DOMAIN ret.places :
                      LET b == ret.places[j]
                      IN  /\ a.target_tile_idx # b.target_tile_idx
                              => a.target_tile_num # b.target_tile_num
                          /\ i # j => <<a.target_tile_num, a.cell_col, a.cell_row>>
                                          # <<b.target_tile_num, b.cell_col, b.cell_row>>

\* twelve source tiles on twelve target tiles of a hundred: slot 10 starts the
\* second row of target tiles, 1011
C25_Witness ==
    /\ ret.op = "Plan"
    /\ arg.source_count = 12 /\ arg.count = 100
    /\ ret.places[11].target_tile_num = 1011
    /\ ret.places[1].target_tile_num = 1001

\* five source tiles share one target tile in a 3 x 2 grid of cells
C25_WitnessCells ==
    /\ ret.op = "Plan"
    /\ arg.source_count = 5 /\ arg.count = 1
    /\ \A i \in 1..5 : ret.places[i].target_tile_num = 1001
    /\ Cardinality({<<ret.places[i].cell_col, ret.places[i].cell_row>> : i \in 1..5}) = 5

(***************************************************************************)
(* SpecIsolate: the run of execute on objects strictly inside the tiles of *)
(* SourceTiles, some of which have no image on the channel, with one       *)
(* target tile or MaxTargets target tiles.                                 *)
(***************************************************************************)
InitIsolate ==
    InitRun({OtherObj, BareMesh(1, 1), MeshObj(ShapeAt(ShapeInner, <<0, 0>>), 0, 0)}
                \cup {MeshObj(ShapeAt(ShapeInner, t), 1, x) :
                         t \in SourceTiles, x \in {0, 1}},
            {TargetMin, MaxTargets})

SpecIsolate == InitIsolate /\ [][Next]_vars

\* the source tile of rank k has no image in the compositor
Skipped(k) == plan[k].source_tile \notin DOMAIN tile_to_texture

\* the compositor pasted the image of the source tile of rank k into the cell
\* the repacking gave to that tile
PastedInOwnCell(k) ==
    /\ comp.cells[k].loaded /\ comp.cells[k].pasted
    /\ comp.cells[k].target_tile_num = plan[k].target_tile_num
    /\ comp.cells[k].cell_col = plan[k].cell_col
    /\ comp.cells[k].cell_row = plan[k].cell_row

\* no image was pasted into the cell of the source tile of rank k
CellKeepsBackground(k) ==
    \A j \in DOMAIN comp.cells :
        (comp.cells[j].loaded /\ comp.cells[j].pasted) =>
            <<comp.cells[j].target_tile_num, comp.cells[j].cell_col, comp.cells[j].cell_row>>
                # <<plan[k].target_tile_num, plan[k].cell_col, plan[k].cell_row>>

\* C26: when the compositor skips a source tile for want of an image, nothing
\* is pasted for that tile and its cell keeps the background, and every other
\* source tile that has an image is pasted into its own cell of its own target
\* tile.
C26_PerTileIsolation ==
    (pc = "done" /\ comp.status = "composited") =>
        \A k \in DOMAIN plan :
            Skipped(k) =>
                /\ ~comp.cells[k].loaded
                /\ CellKeepsBackground(k)
                /\ \A j \in DOMAIN plan : ~Skipped(j) => PastedInOwnCell(j)

(***************************************************************************)
(* SpecPhases: the order of the passes of execute.  arg is                 *)
(*   texture_map   the number of channels analyze_materials found          *)
(*   source_count  the number of source tiles of the selection             *)
(*   use_lossless  props.use_lossless                                      *)
(* and ret holds the position in execute (at) and what has been done:      *)
(*   socket_texture_mappings  the channels surveyed by the pre-detection   *)
(*   output_resolution        whether the output resolution is determined  *)
(*   source_idx               the source tiles whose objects' coordinates  *)
(*                            have been rewritten                          *)
(*   baked_images             the channels baked                           *)
(***************************************************************************)
MaxPhaseChannels == 3
MaxPhaseTiles == 3

InitPhases ==
    /\ Idle
    /\ arg \in {[texture_map |-> c, source_count |-> n, use_lossless |-> l] :
                  c \in 0..MaxPhaseChannels, n \in 0..MaxPhaseTiles, l \in BOOLEAN}
    /\ ret = [op |-> "none"]

\* execute up to "if not texture_map": no channel, cancelled
PhaseNoTextures ==
    /\ ret.op = "none"
    /\ arg.texture_map = 0
    /\ ret' = [op |-> "execute", at |-> "cancelled", socket_texture_mappings |-> 0,
               output_resolution |-> "unset", source_idx |-> 0, baked_images |-> 0]
    /\ UNCHANGED <<arg, pipeVars>>

\* execute up to the pre-detection loop
PhaseBegin ==
    /\ ret.op = "none"
    /\ arg.texture_map > 0
    /\ ret' = [op |-> "execute", at |-> "pre_detect", socket_texture_mappings |-> 0,
               output_resolution |-> "unset", source_idx |-> 0, baked_images |-> 0]
    /\ UNCHANGED <<arg, pipeVars>>

\* "for socket_name in texture_map.keys()": detect_source_udims_for_socket of
\* one channel
PhasePreDetect ==
    /\ ret.op = "execute" /\ ret.at = "pre_detect"
    /\ ret.socket_texture_mappings < arg.texture_map
    /\ ret' = [ret EXCEPT !.socket_texture_mappings = @ + 1]
    /\ UNCHANGED <<arg, pipeVars>>

\* the output resolution: calculated, or the property's value
PhaseResolution ==
    /\ ret.op = "execute" /\ ret.at = "pre_detect"
    /\ ret.socket_texture_mappings = arg.texture_map
    /\ ret' = [ret EXCEPT !.at = "repack",
                          !.output_resolution =
                              IF arg.use_lossless THEN "calculated" ELSE "property"]
    /\ UNCHANGED <<arg, pipeVars>>

\* the step that rewrites a tile's coordinates while the channels are still
\* being surveyed (a mutant)
PhaseRepackTile_DuringSurvey ==
    /\ ret.op = "execute" /\ ret.at \in {"pre_detect", "repack"}
    /\ ret.source_idx < arg.source_count
    /\ ret' = [ret EXCEPT !.source_idx = @ + 1]
    /\ UNCHANGED <<arg, pipeVars>>

\* repack_uvs_udim_based, "for source_idx, source_tile in
\* enumerate(source_tiles)": the coordinates of one tile's objects rewritten
PhaseRepackTile ==
    /\ ret.op = "execute" /\ ret.at = "repack"
    /\ ret.source_idx < arg.source_count
    /\ ret' = [ret EXCEPT !.source_idx = @ + 1]
    /\ UNCHANGED <<arg, pipeVars>>

\* repack_uvs_udim_based returns; execute cancels if nothing was placed
PhaseRepackReturn ==
    /\ ret.op = "execute" /\ ret.at = "repack"
    /\ ret.source_idx = arg.source_count
    /\ ret' = [ret EXCEPT !.at = IF arg.source_count = 0 THEN "cancelled" ELSE "bake"]
    /\ UNCHANGED <<arg, pipeVars>>

\* "for socket_name in texture_map.keys()": bake_combined_texture of one
\* channel
PhaseBakeChannel ==
    /\ ret.op = "execute" /\ ret.at = "bake"
    /\ ret.baked_images < arg.texture_map
    /\ ret' = [ret EXCEPT !.baked_images = @ + 1]
    /\ UNCHANGED <<arg, pipeVars>>

\* the bake loop is over
PhaseBakeDone ==
    /\ ret.op = "execute" /\ ret.at = "bake"
    /\ ret.baked_images = arg.texture_map
    /\ ret' = [ret EXCEPT !.at = "materials"]
    /\ UNCHANGED <<arg, pipeVars>>

NextPhases ==
    \/ PhaseNoTextures
    \/ PhaseBegin
    \/ PhasePreDetect
    \/ PhaseResolution
    \/ PhaseRepackTile
    \/ PhaseRepackReturn
    \/ PhaseBakeChannel
    \/ PhaseBakeDone

SpecPhases == InitPhases /\ [][NextPhases]_vars

\* C27: a coordinate is rewritten only when every channel has been surveyed
\* and the output resolution is determined, and a channel is baked only when
\* the coordinates of every source tile's objects have been rewritten.
C27_PhaseOrdering ==
    [][(ret.op = "execute" /\ ret'.op = "execute") =>
          /\ ret'.source_idx # ret.source_idx
                => /\ ret.socket_texture_mappings = arg.texture_map
                   /\ ret.output_resolution # "unset"
                   /\ ret.baked_images = 0
          /\ ret'.baked_images # ret.baked_images
                => /\ ret.source_idx = arg.source_count
                   /\ ret.socket_texture_mappings = arg.texture_map
                   /\ ret.output_resolution # "unset"
          /\ ret'.socket_texture_mappings # ret.socket_texture_mappings
                => ret.source_idx = 0 /\ ret.baked_images = 0]_vars

\* three channels surveyed, the lossless resolution calculated, three tiles
\* rewritten and the first channel baked
C27_Witness ==
    /\ ret.op = "execute"
    /\ arg.texture_map = 3 /\ arg.source_count = 3 /\ arg.use_lossless
    /\ ret.socket_texture_mappings = 3 /\ ret.output_resolution = "calculated"
    /\ ret.source_idx = 3 /\ ret.baked_images = 1

(***************************************************************************)
(* SpecFallback: the Blender-baking path of bake_combined_texture.  arg is *)
(*   objects     per mesh object the material of its slot                  *)
(*   materials   per material: use_nodes, whether                          *)
(*               setup_emission_for_baking finds a texture node for the    *)
(*               channel (has_texture) and whether the output's Surface    *)
(*               input is linked (surface_linked)                          *)
(*   scene       the render engine, sample count and device                *)
(*   selectable  whether select_set leaves an object selected              *)
(* and ret holds the position (at), the loop index (obj), per material the *)
(* number of TEMP_BAKE_TARGET nodes, the presence of TEMP_EMISSION_BAKE    *)
(* and what the Surface input is linked to, the lists emission_setups and  *)
(* temp_bake_nodes, and the scene settings.                                *)
(***************************************************************************)
MaxMaterials == 2

SceneSettings ==
    {[engine |-> "BLENDER_EEVEE", samples |-> "scene", device |-> "GPU"],
     [engine |-> "CYCLES", samples |-> "one", device |-> "CPU"]}

\* bpy.context.scene after "Configure render settings"
BakeSettings == [engine |-> "CYCLES", samples |-> "one", device |-> "CPU"]

\* the Surface input of material m before the bake
OriginalSurface(m) == IF arg.materials[m].surface_linked THEN "original" ELSE "unlinked"

Contains(s, x) == \E i \in DOMAIN s : s[i] = x

InitFallback ==
    /\ Idle
    /\ arg \in {[objects |-> o, materials |-> ms, scene |-> sc, selectable |-> sel] :
                  o \in UNION {[1..n -> 1..MaxMaterials] : n \in 1..MaxMaterials},
                  ms \in [1..MaxMaterials ->
                            [use_nodes : BOOLEAN, has_texture : BOOLEAN,
                             surface_linked : BOOLEAN]],
                  sc \in SceneSettings, sel \in BOOLEAN}
    /\ ret = [op |-> "none"]

\* "Fall back to Blender baking" up to "Setup materials for baking"
FallbackBegin ==
    /\ ret.op = "none"
    /\ ret' = [op |-> "bake_combined_texture", at |-> "setup", obj |-> 1,
               mats |-> [m \in 1..MaxMaterials |->
                            [bake_target |-> 0, emission |-> FALSE,
                             surface |-> OriginalSurface(m)]],
               emission_setups |-> <<>>, temp_bake_nodes |-> <<>>,
               scene |-> arg.scene]
    /\ UNCHANGED <<arg, pipeVars>>

\* the material has no nodes, or is in materials_with_setup: continue
FallbackSkipMaterial ==
    /\ ret.op = "bake_combined_texture" /\ ret.at = "setup"
    /\ ret.obj <= Len(arg.objects)
    /\ LET m == arg.objects[ret.obj]
       IN  ~arg.materials[m].use_nodes \/ Contains(ret.emission_setups, m)
    /\ ret' = [ret EXCEPT !.obj = @ + 1]
    /\ UNCHANGED <<arg, pipeVars>>

\* setup_emission_for_baking on the material, then the TEMP_BAKE_TARGET node
FallbackSetupMaterial ==
    /\ ret.op = "bake_combined_texture" /\ ret.at = "setup"
    /\ ret.obj <= Len(arg.objects)
    /\ LET m == arg.objects[ret.obj]
           setup_info == arg.materials[m].has_texture
       IN  /\ arg.materials[m].use_nodes /\ ~Contains(ret.emission_setups, m)
           /\ ret' = [ret EXCEPT
                        !.obj = @ + 1,
                        !.mats[m] = [bake_target |-> @.bake_target + 1,
                                     emission |-> IF setup_info THEN TRUE ELSE @.emission,
                                     surface |-> IF setup_info THEN "emission" ELSE @.surface],
                        !.emission_setups = IF setup_info THEN Append(@, m) ELSE @,
                        !.temp_bake_nodes = Append(@, m)]
    /\ UNCHANGED <<arg, pipeVars>>

\* "if not emission_setups: return baked_image"
FallbackReturnNoSetups ==
    /\ ret.op = "bake_combined_texture" /\ ret.at = "setup"
    /\ ret.obj > Len(arg.objects)
    /\ ret.emission_setups = <<>>
    /\ ret' = [ret EXCEPT !.at = "returned"]
    /\ UNCHANGED <<arg, pipeVars>>

\* the render settings are set for the bake and the objects selected
FallbackConfigure ==
    /\ ret.op = "bake_combined_texture" /\ ret.at = "setup"
    /\ ret.obj > Len(arg.objects)
    /\ ret.emission_setups # <<>>
    /\ arg.selectable
    /\ ret' = [ret EXCEPT !.at = "bake", !.scene = BakeSettings]
    /\ UNCHANGED <<arg, pipeVars>>

\* the same, then "if not bpy.context.selected_objects: return baked_image"
FallbackReturnNoSelection ==
    /\ ret.op = "bake_combined_texture" /\ ret.at = "setup"
    /\ ret.obj > Len(arg.objects)
    /\ ret.emission_setups # <<>>
    /\ ~arg.selectable
    /\ ret' = [ret EXCEPT !.at = "returned", !.scene = BakeSettings]
    /\ UNCHANGED <<arg, pipeVars>>

\* what the Surface input of a material is linked to after
\* cleanup_emission_setup: setup_info['original_connection'] is the link
\* object that setup_emission_for_baking removed, so reading its from_socket
\* reads a removed link, and the reconnection may give the original link,
\* none (links.new raised) or a link from another socket
RestoredSurface(m) ==
    IF arg.materials[m].surface_linked THEN {"original", "unlinked", "stale"}
    ELSE {"unlinked"}

\* the bake (an exception is caught), the cleanup of the emission setups and
\* of the TEMP_BAKE_TARGET nodes, and the restoring of the render settings
FallbackBakeAndCleanup ==
    /\ ret.op = "bake_combined_texture" /\ ret.at = "bake"
    /\ \E restored \in [1..MaxMaterials -> {"original", "unlinked", "stale"}] :
          /\ \A m \in 1..MaxMaterials :
                IF Contains(ret.emission_setups, m)
                THEN restored[m] \in RestoredSurface(m)
                ELSE restored[m] = ret.mats[m].surface
          /\ ret' = [ret EXCEPT
                       !.at = "returned",
                       !.mats = [m \in 1..MaxMaterials |->
                                    [bake_target |-> 0,
                                     emission |-> IF Contains(ret.emission_setups, m)
                                                  THEN FALSE ELSE @[m].emission,
                                     surface |-> restored[m]]],
                       !.scene = arg.scene]
    /\ UNCHANGED <<arg, pipeVars>>

NextFallback ==
    \/ FallbackBegin
    \/ FallbackSkipMaterial
    \/ FallbackSetupMaterial
    \/ FallbackReturnNoSetups
    \/ FallbackConfigure
    \/ FallbackReturnNoSelection
    \/ FallbackBakeAndCleanup

SpecFallback == InitFallback /\ [][NextFallback]_vars

\* C28: when the Blender-baking path of bake_combined_texture has returned, no
\* material holds a TEMP_BAKE_TARGET or TEMP_EMISSION_BAKE node, every
\* material output's Surface input is linked as it was, and the render
\* engine, sample count and device are the original ones.
C28_FallbackReversible ==
    (ret.op = "bake_combined_texture" /\ ret.at = "returned") =>
        /\ \A m \in 1..MaxMaterials :
              /\ ret.mats[m].bake_target = 0
              /\ ~ret.mats[m].emission
              /\ ret.mats[m].surface = OriginalSurface(m)
        /\ ret.scene = arg.scene

(***************************************************************************)
(* SpecOverlap: the compositor's pixel rectangles of two source tiles of   *)
(* one compositing, for every source count up to MaxOverlapSources, at the *)
(* resolutions ResolutionMin .. ResolutionMin + MaxResolutionStep.         *)
(***************************************************************************)
MaxOverlapSources == 21

InitOverlap ==
    /\ Idle
    /\ arg \in {[source_count |-> n, count |-> t, source_idx |-> i, other_idx |-> j,
                 resolution |-> r] :
                    n \in 1..MaxOverlapSources, t \in 1..MaxPasteTargets,
                    i \in 0..(MaxOverlapSources - 1), j \in 0..(MaxOverlapSources - 1),
                    r \in ResolutionMin..(ResolutionMin + MaxResolutionStep)}
    /\ arg.source_idx < arg.other_idx
    /\ arg.other_idx < arg.source_count
    /\ ret = [op |-> "none"]

\* two iterations of "for source_idx, source_tile in enumerate(source_tiles)"
CallPastePair ==
    /\ ret.op = "none"
    /\ LET g == GridLayout(arg.source_count, arg.count)
           a == Placement(arg.source_count, arg.count, arg.source_idx)
           b == Placement(arg.source_count, arg.count, arg.other_idx)
       IN  ret' = [op |-> "PastePair", layout |-> g,
                   place |-> <<a, b>>,
                   box |-> <<PasteBox(g.grid_cols, a.cell_col, a.cell_row, arg.resolution),
                             PasteBox(g.grid_cols, b.cell_col, b.cell_row, arg.resolution)>>]
    /\ UNCHANGED <<arg, pipeVars>>

NextOverlap == CallPastePair

SpecOverlap == InitOverlap /\ [][NextOverlap]_vars

\* the pixel columns, and rows, of a pasted square
PixelColumns(box) == box.px..(box.px + box.cell_size_px - 1)
PixelRows(box) == box.py..(box.py + box.cell_size_px - 1)

\* C29: the square pasted for a cell lies inside the R x R target image, and
\* the squares pasted for two different cells of one target tile have no
\* pixel in common.
C29_PasteInBoundsDisjoint ==
    ret.op = "PastePair" =>
        /\ \A k \in 1..2 :
              /\ PixelColumns(ret.box[k]) \subseteq 0..(arg.resolution - 1)
              /\ PixelRows(ret.box[k]) \subseteq 0..(arg.resolution - 1)
        /\ ret.place[1].target_tile_num = ret.place[2].target_tile_num
              => \/ PixelColumns(ret.box[1]) \cap PixelColumns(ret.box[2]) = {}
                 \/ PixelRows(ret.box[1]) \cap PixelRows(ret.box[2]) = {}

(***************************************************************************)
(* SpecDensity: grid_cols as calculate_lossless_resolution and as          *)
(* repack_uvs_udim_based derive it from the same NumObjects objects, each  *)
(* no mesh or a mesh whose coordinates fill a tile of SourceTiles or lie   *)
(* strictly inside it, and the same target count up to MaxTargets.         *)
(***************************************************************************)
\* source_tiles of detect_source_udims(objects)
RepackSourceTiles(objects) ==
    LET step(sv, o) == SurveyObject(sv, o, objects[o], objects[o].first_tex)
    IN  SeqFold(step, [o \in DOMAIN objects |-> o], 1, EmptySurvey).tiles

\* grid_cols of repack_uvs_udim_based, 0 when it returns before the layout
RepackGridCols(objects, count) ==
    IF RepackSourceTiles(objects) = {} THEN 0
    ELSE GridLayout(Cardinality(RepackSourceTiles(objects)), count).grid_cols

InitDensity ==
    /\ Idle
    /\ arg \in {[objects |-> o, target_udim_count |-> c] :
                  o \in [1..NumObjects ->
                           {OtherObj} \cup {MeshObj(ShapeAt(sh, t), 1, 1) :
                                              sh \in {ShapeFull, ShapeInner},
                                              t \in SourceTiles}],
                  c \in TargetMin..MaxTargets}
    /\ ret = [op |-> "none"]

\* execute: calculate_lossless_resolution, then repack_uvs_udim_based
CallGridCols ==
    /\ ret.op = "none"
    /\ ret' = [op |-> "grid_cols",
               lossless |-> LosslessGridCols(arg.objects, arg.target_udim_count),
               repack |-> RepackGridCols(arg.objects, arg.target_udim_count)]
    /\ UNCHANGED <<arg, pipeVars>>

NextDensity == CallGridCols

SpecDensity == InitDensity /\ [][NextDensity]_vars

\* C30: for the same objects and target count, grid_cols of
\* calculate_lossless_resolution is grid_cols of repack_uvs_udim_based.
C30_SameGridCols ==
    (ret.op = "grid_cols" /\ ret.repack # 0) => ret.lossless = ret.repack

====
